---- MODULE Spec2Model ----
(***************************************************************************)
(* A model of the VCM (View Comments Mirror) extension: the comment        *)
(* extractor, injector and stripper as operators over texts, and the       *)
(* extension's handlers (saveVCM, the watchers, the toggle and mark        *)
(* commands) as actions over one open document and its two persisted       *)
(* partition files.                                                        *)
(*                                                                         *)
(* A text is the sequence of its lines (text.split("\n")), a line is the   *)
(* sequence of its characters.  Line indices stored in records are 0-based *)
(* as in the source; TLA+ sequence positions are 1-based.                  *)
(* The 8-hex-digit MD5 digest of hashLine is modelled by the trimmed       *)
(* content it digests (an injective digest: no collisions).                *)
(***************************************************************************)
EXTENDS Integers, Sequences, FiniteSets, TLC

(***************************************************************************)
(* Characters and lines                                                    *)
(***************************************************************************)

\* A character is a string: the character itself for a character of ASCII,
\* the name of its code point ("U+00A0") for any other character, so that
\* two characters are equal only when their code points are.
\* White space of String.prototype.trim and of the regular expressions' \s:
\* space, tab, line feed, vertical tab (written as the character itself, no
\* escape exists), form feed, carriage return, and the white space outside
\* ASCII
Whitespace ==
  {" ", "\t", "\n", "", "\f", "\r",
   "U+00A0", "U+1680", "U+2000", "U+2001", "U+2002", "U+2003", "U+2004", "U+2005",
   "U+2006", "U+2007", "U+2008", "U+2009", "U+200A", "U+2028", "U+2029", "U+202F",
   "U+205F", "U+3000", "U+FEFF"}

IsWs(c) == c \in Whitespace

IsBlank(line) == \A k \in 1..Len(line) : IsWs(line[k])

RECURSIVE TrimStart(_)
TrimStart(line) ==
  IF line = <<>> THEN <<>>
  ELSE IF IsWs(Head(line)) THEN TrimStart(Tail(line)) ELSE line

RECURSIVE TrimEnd(_)
TrimEnd(line) ==
  IF line = <<>> THEN <<>>
  ELSE IF IsWs(line[Len(line)]) THEN TrimEnd(SubSeq(line, 1, Len(line) - 1))
       ELSE line

Trim(line) == TrimEnd(TrimStart(line))

\* s occurs in line at position k (1-based)
StartsAt(line, s, k) ==
  /\ k >= 1
  /\ k + Len(s) - 1 <= Len(line)
  /\ \A j \in 1..Len(s) : line[k + j - 1] = s[j]

StartsWith(line, s) == StartsAt(line, s, 1)

\* String.prototype.includes
Includes(line, s) == \E k \in 1..(Len(line) + 1) : StartsAt(line, s, k)

\* Array.prototype.join("\n") followed by split("\n"): the empty array joins
\* to the empty string, which splits into one empty line.
JoinLines(ls) == IF ls = <<>> THEN << <<>> >> ELSE ls

Min(S) == CHOOSE x \in S : \A y \in S : x <= y

RECURSIVE SeqSum(_)
SeqSum(s) == IF s = <<>> THEN 0 ELSE Head(s) + SeqSum(Tail(s))

RECURSIVE SelectIdx(_, _, _)
\* the positions of s (ascending) that lie in the set P
SelectIdx(n, P, k) ==
  IF k > n THEN <<>>
  ELSE IF k \in P THEN <<k>> \o SelectIdx(n, P, k + 1) ELSE SelectIdx(n, P, k + 1)

(***************************************************************************)
(* Comment markers                                                         *)
(***************************************************************************)

MarkerHash == <<"#">>
MarkerSlash == <<"/", "/">>
MarkerDash == <<"-", "-">>
MarkerPercent == <<"%">>
MarkerSemi == <<";">>

\* COMMENT_MARKERS[ext] finds a member the object inherits from
\* Object.prototype: the extensions (lower case) that name one
InheritedMember(ext) == ext \in {"constructor", "__proto__"}

\* the TypeError of a caller that maps or iterates what is no list of markers
TypeError == "TypeError"

\* COMMENT_MARKERS[ext] || default, by file extension (the text after the last
\* dot, in lower case): unknown extensions get all markers, the name of an
\* inherited member gets that member, which is truthy and no list
getCommentMarkersForFile(ext) ==
  CASE ext \in {"py", "python", "pyx", "pyi"} -> <<MarkerHash>>
    [] ext \in {"js", "jsx", "ts", "tsx", "java", "c", "cpp", "h", "hpp", "cs",
                "go", "rs", "swift"} -> <<MarkerSlash>>
    [] ext \in {"sql", "lua"} -> <<MarkerDash>>
    [] ext \in {"m", "matlab"} -> <<MarkerPercent>>
    [] ext \in {"asm", "s"} -> <<MarkerSemi>>
    [] InheritedMember(ext) -> [inherited |-> ext]
    [] OTHER -> <<MarkerHash, MarkerSlash, MarkerDash, MarkerPercent, MarkerSemi>>

MarkerAt(line, markers, k) == \E m \in 1..Len(markers) : StartsAt(line, markers[m], k)

\* hashLine without the trim
hashLine_NoTrim(line) == line

hashLine(line) == Trim(line)

NoHash == <<>>

\* isComment of extractComments, lineStartPattern of stripComments
isComment(line, markers) == MarkerAt(Trim(line), markers, 1)

IsCodeLine(line, markers) == ~IsBlank(line) /\ ~isComment(line, markers)

\* Position (1-based) where the first match of /(\s+)(marker|...)/ starts, or 0.
\* A match starts at k iff line[k] is whitespace and a marker follows the
\* whitespace run that begins at k.
RunEnd(line, k) ==
  Min({j \in k..(Len(line) + 1) : j = Len(line) + 1 \/ ~IsWs(line[j])})

InlineMatch(line, markers) ==
  LET S == {k \in 1..Len(line) :
              IsWs(line[k]) /\ MarkerAt(line, markers, RunEnd(line, k))}
  IN IF S = {} THEN 0 ELSE Min(S)

(***************************************************************************)
(* Comment records                                                         *)
(*   type            "block" | "inline"                                    *)
(*   anchor          hashLine of the anchored code line (inline: of the    *)
(*                   code before the comment)                              *)
(*   prevHash, nextHash   context hashes, NoHash for null                  *)
(*   originalLine    inline: 0-based line; block records carry none (-1)   *)
(*   text            inline payload (marker onward, with the whitespace    *)
(*                   before it); <<>> when the field is absent             *)
(*   block           block payload: lines [text, originalLine]; <<>> when  *)
(*                   the field is absent                                   *)
(*   text_cleanMode  clean-mode payload of an inline record (a string),    *)
(*   block_cleanMode clean-mode payload of a block record (a block array): *)
(*                   the source keeps both in the one field text_cleanMode;*)
(*                   <<>> stands for null / absent                         *)
(*   alwaysShow, isPrivate   flags, FALSE when absent                      *)
(*   leadingBlankLines, trailingBlankLines   0 when absent                 *)
(***************************************************************************)

BlockLine(t, n) == [text |-> t, originalLine |-> n]

InlineRecord(anchor, prev, next, line, txt) ==
  [type |-> "inline", anchor |-> anchor, prevHash |-> prev, nextHash |-> next,
   originalLine |-> line, text |-> txt, block |-> <<>>,
   text_cleanMode |-> <<>>, block_cleanMode |-> <<>>,
   alwaysShow |-> FALSE, isPrivate |-> FALSE,
   leadingBlankLines |-> 0, trailingBlankLines |-> 0]

BlockRecord(anchor, prev, next, blk, lead, trail) ==
  [type |-> "block", anchor |-> anchor, prevHash |-> prev, nextHash |-> next,
   originalLine |-> -1, text |-> <<>>, block |-> blk,
   text_cleanMode |-> <<>>, block_cleanMode |-> <<>>,
   alwaysShow |-> FALSE, isPrivate |-> FALSE,
   leadingBlankLines |-> lead, trailingBlankLines |-> trail]

\* `${c.type}:${c.anchor}`
Key(c) == <<c.type, c.anchor>>

RECURSIVE JoinBlockText(_)
\* block.map(b => b.text).join('\n'); "\n" is a character no line holds
JoinBlockText(blk) ==
  IF blk = <<>> THEN <<>>
  ELSE IF Len(blk) = 1 THEN blk[1].text
  ELSE blk[1].text \o <<"\n">> \o JoinBlockText(Tail(blk))

\* c.text || (c.block ? c.block.map(b => b.text).join('\n') : '')
TextKey(c) == IF c.text # <<>> THEN c.text ELSE JoinBlockText(c.block)

(***************************************************************************)
(* extractComments                                                         *)
(***************************************************************************)

\* 1-based position of the next / previous non-blank non-comment line, 0 if none
findNextCodeLine(lines, markers, p) ==
  LET S == {j \in (p + 1)..Len(lines) : IsCodeLine(lines[j], markers)}
  IN IF S = {} THEN 0 ELSE Min(S)

findPrevCodeLine(lines, markers, p) ==
  LET S == {j \in 1..(p - 1) : IsCodeLine(lines[j], markers)}
  IN IF S = {} THEN 0 ELSE CHOOSE x \in S : \A y \in S : y <= x

HashAt(lines, p) == IF p = 0 THEN NoHash ELSE hashLine(lines[p])

NextNonBlank(lines, p) ==
  LET S == {j \in (p + 1)..Len(lines) : ~IsBlank(lines[j])}
  IN IF S = {} THEN 0 ELSE Min(S)

\* number of consecutive blank lines directly above position p
RECURSIVE BlankRunAbove(_, _)
BlankRunAbove(lines, p) ==
  IF p <= 1 THEN 0
  ELSE IF IsBlank(lines[p - 1]) THEN 1 + BlankRunAbove(lines, p - 1) ELSE 0

\* One iteration of the line loop; acc = [comments, buffer]
ExtractStep(lines, markers, acc, p) ==
  LET line == lines[p]
      entry == BlockLine(line, p - 1)
  IN
  IF isComment(line, markers)
  THEN [acc EXCEPT !.buffer = Append(@, entry)]                      \* CASE 1
  ELSE IF IsBlank(line)
  THEN IF /\ acc.buffer # <<>>                                        \* CASE 1.5
          /\ NextNonBlank(lines, p) # 0
          /\ isComment(lines[NextNonBlank(lines, p)], markers)
       THEN [acc EXCEPT !.buffer = Append(@, entry)]
       ELSE acc
  ELSE
    LET m == InlineMatch(line, markers)
        prev == HashAt(lines, findPrevCodeLine(lines, markers, p))
        next == HashAt(lines, findNextCodeLine(lines, markers, p))
        withInline ==                                                 \* CASE 2
          IF m > 0
          THEN Append(acc.comments,
                      InlineRecord(hashLine(TrimEnd(SubSeq(line, 1, m - 1))),
                                   prev, next, p - 1,
                                   SubSeq(line, m, Len(line))))
          ELSE acc.comments
        first == acc.buffer[1].originalLine + 1
        last == acc.buffer[Len(acc.buffer)].originalLine + 1
    IN IF acc.buffer # <<>>                                           \* CASE 3
       THEN [comments |->
               Append(withInline,
                      BlockRecord(hashLine(line), prev, next, acc.buffer,
                                  BlankRunAbove(lines, first), p - last - 1)),
             buffer |-> <<>>]
       ELSE [comments |-> withInline, buffer |-> acc.buffer]

RECURSIVE ExtractLoop(_, _, _, _)
ExtractLoop(lines, markers, acc, p) ==
  IF p > Len(lines) THEN acc
  ELSE ExtractLoop(lines, markers, ExtractStep(lines, markers, acc, p), p + 1)

\* commentMarkers.map(...) raises when the markers are no list
extractComments(lines, ext) ==
  IF InheritedMember(ext) THEN TypeError ELSE
  LET markers == getCommentMarkersForFile(ext)
      acc == ExtractLoop(lines, markers, [comments |-> <<>>, buffer |-> <<>>], 1)
      firstCode == findNextCodeLine(lines, markers, 0)
      anchorLine == IF firstCode # 0 THEN firstCode ELSE 1
      nextIdx == findNextCodeLine(lines, markers, anchorLine - 1)
  IN IF acc.buffer # <<>>                                             \* CASE 4
     THEN <<BlockRecord(hashLine(lines[anchorLine]), NoHash,
                        HashAt(lines, nextIdx), acc.buffer, 0, 0)>>
          \o acc.comments
     ELSE acc.comments

(***************************************************************************)
(* injectComments                                                          *)
(***************************************************************************)

InjectFilter(comments, includePrivate) ==
  SelectSeq(comments, LAMBDA c : ~c.alwaysShow /\ (~c.isPrivate \/ includePrivate))

\* an anchor that matches no line falls back to the first line
lineHashToIndices_OrFirst(lines, h) ==
  IF \E k \in 1..Len(lines) : ~IsBlank(lines[k]) /\ hashLine(lines[k]) = h
  THEN SelectIdx(Len(lines),
                 {k \in 1..Len(lines) : ~IsBlank(lines[k]) /\ hashLine(lines[k]) = h}, 1)
  ELSE <<1>>

\* lineHashToIndices.get(h): the non-blank lines with that hash, ascending
lineHashToIndices(lines, h) ==
  SelectIdx(Len(lines),
            {k \in 1..Len(lines) : ~IsBlank(lines[k]) /\ hashLine(lines[k]) = h}, 1)

PrevNonBlank(lines, p) ==
  LET S == {j \in 1..(p - 1) : ~IsBlank(lines[j])}
  IN IF S = {} THEN 0 ELSE CHOOSE x \in S : \A y \in S : y <= x

ContextScore(lines, comment, idx) ==
  LET prevIdx == PrevNonBlank(lines, idx)
      nextIdx == NextNonBlank(lines, idx)
  IN (IF comment.prevHash # NoHash /\ prevIdx # 0
         /\ hashLine(lines[prevIdx]) = comment.prevHash THEN 10 ELSE 0)
   + (IF comment.nextHash # NoHash /\ nextIdx # 0
         /\ hashLine(lines[nextIdx]) = comment.nextHash THEN 10 ELSE 0)

SeqToSet(s) == {s[k] : k \in 1..Len(s)}

\* findBestMatch without the context and without the used occurrences
findBestMatch_First(lines, comment, candidateIndices, usedIndices) ==
  candidateIndices[1]

findBestMatch(lines, comment, candidateIndices, usedIndices) ==
  LET available == SelectSeq(candidateIndices, LAMBDA idx : idx \notin usedIndices)
      best == {idx \in SeqToSet(available) :
                 \A o \in SeqToSet(available) :
                    ContextScore(lines, comment, o) <= ContextScore(lines, comment, idx)}
  IN IF Len(candidateIndices) = 1 THEN candidateIndices[1]
     ELSE IF available = <<>> THEN candidateIndices[1]
     ELSE IF Len(available) = 1 THEN available[1]
     ELSE Min(best)

\* a.block[0]?.originalLine || 0
BlockSortKey(c) == IF c.block = <<>> THEN 0 ELSE c.block[1].originalLine

\* Array.prototype.sort with the comparator a.key - b.key (stable): the
\* element at sorted position i is the one with i - 1 elements before it
SortByKeys(s, keys) ==
  LET Before(j, k) == keys[j] < keys[k] \/ (keys[j] = keys[k] /\ j < k)
      Rank(k) == Cardinality({j \in 1..Len(s) : Before(j, k)})
  IN [i \in 1..Len(s) |-> s[CHOOSE k \in 1..Len(s) : Rank(k) = i - 1]]

InlineSortKey(c) == c.originalLine

\* The comparator of the block sort reads a.block[0]: with two or more block
\* records to sort, a record without a block field raises a TypeError.
injectThrows(comments, includePrivate) ==
  LET blocks == SelectSeq(InjectFilter(comments, includePrivate),
                          LAMBDA c : c.type = "block")
  IN Len(blocks) >= 2 /\ \E k \in 1..Len(blocks) : blocks[k].block = <<>>

RECURSIVE ResolveAll(_, _, _, _, _)
\* blockMap / inlineMap: position -> the records resolved to it, in order.
\* markUsed is TRUE for blocks (usedIndices.add) and FALSE for inlines.
ResolveAll(lines, recs, acc, markUsed, k) ==
  IF k > Len(recs) THEN acc
  ELSE
    LET c == recs[k]
        indices == lineHashToIndices(lines, c.anchor)
        target == findBestMatch(lines, c, indices, acc.used)
    IN IF indices = <<>>
       THEN ResolveAll(lines, recs, acc, markUsed, k + 1)
       ELSE ResolveAll(lines, recs,
              [used |-> IF markUsed THEN acc.used \cup {target} ELSE acc.used,
               map |-> [acc.map EXCEPT ![target] = Append(@, c)]],
              markUsed, k + 1)

\* the positions of the consecutive blank lines directly above p, ascending
BlankIndicesAbove(lines, p) ==
  LET n == BlankRunAbove(lines, p) IN [j \in 1..n |-> p - n + j - 1]

\* blankLinesOwnedByComments
BlankLinesOwned(lines, blockMap) ==
  UNION {UNION {LET blanks == BlankIndicesAbove(lines, p)
                    b == blockMap[p][k]
                    total == b.leadingBlankLines + b.trailingBlankLines
                    n == IF Len(blanks) < total THEN Len(blanks) ELSE total
                IN {blanks[j] : j \in 1..n}
                : k \in 1..Len(blockMap[p])}
         : p \in 1..Len(lines)}

\* Array.prototype.slice(from, to) on 0-based bounds
Slice(s, from, to) ==
  LET hi == IF to > Len(s) THEN Len(s) ELSE to
  IN IF from >= hi THEN <<>> ELSE SubSeq(s, from + 1, hi)

RECURSIVE BlockTexts(_)
BlockTexts(blk) ==
  IF blk = <<>> THEN <<>> ELSE <<blk[1].text>> \o BlockTexts(Tail(blk))

\* what one block record emits above its anchor line
EmitBlock(lines, p, b) ==
  LET blanks == BlankIndicesAbove(lines, p)
      allBlank == [j \in 1..Len(blanks) |-> lines[blanks[j]]]
      lead == b.leadingBlankLines
      trail == b.trailingBlankLines
  IN Slice(allBlank, 0, lead)
     \o BlockTexts(b.block_cleanMode) \o BlockTexts(b.block)
     \o Slice(allBlank, lead, lead + trail)

RECURSIVE EmitBlocks(_, _, _)
EmitBlocks(lines, p, blocks) ==
  IF blocks = <<>> THEN <<>>
  ELSE EmitBlock(lines, p, Head(blocks)) \o EmitBlocks(lines, p, Tail(blocks))

RECURSIVE Rebuild(_, _, _, _, _)
Rebuild(lines, blockMap, inlineMap, owned, p) ==
  IF p > Len(lines) THEN <<>>
  ELSE
    LET above == EmitBlocks(lines, p, blockMap[p])
        inl == inlineMap[p]
        line == IF inl = <<>> THEN lines[p]
                ELSE lines[p] \o inl[1].text_cleanMode \o inl[1].text
        here == IF p \in owned THEN <<>> ELSE <<line>>
    IN above \o here \o Rebuild(lines, blockMap, inlineMap, owned, p + 1)

\* The text injectComments returns when it does not throw
injectComments(cleanText, comments, includePrivate) ==
  LET lines == cleanText
      commentsToInject == InjectFilter(comments, includePrivate)
      blockSel == SelectSeq(commentsToInject, LAMBDA c : c.type = "block")
      inlineSel == SelectSeq(commentsToInject, LAMBDA c : c.type = "inline")
      blockComments ==
        SortByKeys(blockSel, [k \in 1..Len(blockSel) |-> BlockSortKey(blockSel[k])])
      inlineComments ==
        SortByKeys(inlineSel, [k \in 1..Len(inlineSel) |-> InlineSortKey(inlineSel[k])])
      empty == [p \in 1..Len(lines) |-> <<>>]
      blocks == ResolveAll(lines, blockComments, [used |-> {}, map |-> empty], TRUE, 1)
      inlines == ResolveAll(lines, inlineComments,
                            [used |-> blocks.used, map |-> empty], FALSE, 1)
  IN JoinLines(Rebuild(lines, blocks.map, inlines.map,
                       BlankLinesOwned(lines, blocks.map), 1))

(***************************************************************************)
(* stripComments                                                           *)
(***************************************************************************)

\* the quote characters that open a string literal: the double quote, the
\* single quote and the backtick; a string of this notation cannot hold a
\* backtick, which stands here as the name of its code point
Quotes == {"\"", "'", "U+0060"}

RECURSIVE ScanCommentStart(_, _, _, _, _, _)
\* The character loop of findCommentStart from position k on.  Returns the
\* position (1-based) of the whitespace before the marker, 0 for "not found".
ScanCommentStart(line, markers, k, inString, stringChar, escaped) ==
  IF k > Len(line) THEN 0
  ELSE IF escaped
    THEN ScanCommentStart(line, markers, k + 1, inString, stringChar, FALSE)
  ELSE IF line[k] = "\\"
    THEN ScanCommentStart(line, markers, k + 1, inString, stringChar, TRUE)
  ELSE IF ~inString /\ line[k] \in Quotes
    THEN ScanCommentStart(line, markers, k + 1, TRUE, line[k], FALSE)
  ELSE IF inString /\ line[k] = stringChar
    THEN ScanCommentStart(line, markers, k + 1, FALSE, "", FALSE)
  ELSE IF ~inString /\ MarkerAt(line, markers, k) /\ k > 1 /\ IsWs(line[k - 1])
    THEN k - 1
  ELSE ScanCommentStart(line, markers, k + 1, inString, stringChar, FALSE)

findCommentStart(line, markers) == ScanCommentStart(line, markers, 1, FALSE, "", FALSE)

\* the 0-based line numbers held by the block payloads of the records in S
BlockLinesOf(S) ==
  UNION {{c.block[k].originalLine : k \in 1..Len(c.block)} : c \in S}

\* the loop body of stripComments with every blank line kept
StripLine_KeepBlanks(lines, markers, p, keepLines, allCommentBlockLines, inlineKeep) ==
  LET line == lines[p]
      pos == findCommentStart(line, markers)
  IN IF (p - 1) \in keepLines THEN <<line>>
     ELSE IF IsBlank(line) THEN <<line>>
     ELSE IF isComment(line, markers) THEN <<>>
     ELSE IF (p - 1) \in inlineKeep THEN <<line>>
     ELSE IF pos > 0 THEN <<TrimEnd(SubSeq(line, 1, pos - 1))>>
     ELSE <<line>>

\* the loop body of stripComments for the line at position p; it yields
\* the lines pushed to filteredLines (none or one)
StripLine(lines, markers, p, keepLines, allCommentBlockLines, inlineKeep) ==
  LET line == lines[p]
      pos == findCommentStart(line, markers)
  IN IF (p - 1) \in keepLines THEN <<line>>
     ELSE IF IsBlank(line)
       THEN IF (p - 1) \in allCommentBlockLines THEN <<>> ELSE <<line>>
     ELSE IF isComment(line, markers) THEN <<>>
     ELSE IF (p - 1) \in inlineKeep THEN <<line>>
     ELSE IF pos > 0 THEN <<TrimEnd(SubSeq(line, 1, pos - 1))>>
     ELSE <<line>>

RECURSIVE StripLoop(_, _, _, _, _, _)
StripLoop(lines, markers, p, keepLines, allCommentBlockLines, inlineKeep) ==
  IF p > Len(lines) THEN <<>>
  ELSE StripLine(lines, markers, p, keepLines, allCommentBlockLines, inlineKeep)
       \o StripLoop(lines, markers, p + 1, keepLines, allCommentBlockLines, inlineKeep)

\* stripComments without the alwaysShow anchors
StripWith_NoAlwaysShow(text, markers, vcmComments, keepPrivate, currentComments) ==
  LET privateAnchors ==
        {c.anchor : c \in {x \in SeqToSet(vcmComments) : x.isPrivate /\ keepPrivate}}
      blocks == {c \in currentComments : c.type = "block"}
      inlines == {c \in currentComments : c.type = "inline"}
  IN JoinLines(StripLoop(text, markers, 1,
                         BlockLinesOf({c \in blocks : c.anchor \in privateAnchors})
                           \cup {c.originalLine :
                                   c \in {x \in inlines : x.anchor \in privateAnchors}},
                         BlockLinesOf(blocks),
                         {c.originalLine :
                            c \in {x \in inlines : x.anchor \in privateAnchors}}))

\* stripComments once the current comments are extracted: the anchor sets of
\* the records to keep, the line sets of the current comments, the line loop
StripWith(text, markers, vcmComments, keepPrivate, currentComments) ==
  LET alwaysShowAnchors == {c.anchor : c \in {x \in SeqToSet(vcmComments) : x.alwaysShow}}
      privateAnchors ==
        {c.anchor : c \in {x \in SeqToSet(vcmComments) : x.isPrivate /\ keepPrivate}}
      blocks == {c \in currentComments : c.type = "block"}
      inlines == {c \in currentComments : c.type = "inline"}
      allCommentBlockLines == BlockLinesOf(blocks)
      alwaysShowLines ==
        BlockLinesOf({c \in blocks : c.anchor \in alwaysShowAnchors})
        \cup {c.originalLine : c \in {x \in inlines : x.anchor \in alwaysShowAnchors}}
      privateLines ==
        BlockLinesOf({c \in blocks : c.anchor \in privateAnchors})
        \cup {c.originalLine : c \in {x \in inlines : x.anchor \in privateAnchors}}
      inlineCommentsToKeep ==
        {c.originalLine :
           c \in {x \in inlines : x.anchor \in alwaysShowAnchors \cup privateAnchors}}
  IN JoinLines(StripLoop(text, markers, 1, alwaysShowLines \cup privateLines,
                         allCommentBlockLines, inlineCommentsToKeep))

\* commentMarkers.map(...) raises when the markers are no list
stripComments(text, ext, vcmComments, keepPrivate) ==
  IF InheritedMember(ext) THEN TypeError ELSE
  StripWith(text, getCommentMarkersForFile(ext), vcmComments, keepPrivate,
            SeqToSet(extractComments(text, ext)))

(***************************************************************************)
(* Persisted partition files and detectInitialMode                         *)
(***************************************************************************)

NoFile == [exists |-> FALSE, comments |-> <<>>]

\* loadAllComments: a missing file reads as no comments; the records of the
\* private file come back with isPrivate = true
loadShared(files) == IF files.shared.exists THEN files.shared.comments ELSE <<>>

loadPrivate(files) ==
  IF files.private.exists
  THEN [k \in 1..Len(files.private.comments) |->
          [files.private.comments[k] EXCEPT !.isPrivate = TRUE]]
  ELSE <<>>

loadAllComments(files) == loadShared(files) \o loadPrivate(files)

\* the records as the private file stores them: without the isPrivate field
WithoutPrivateFlag(s) == [k \in 1..Len(s) |-> [s[k] EXCEPT !.isPrivate = FALSE]]

\* saveCommentsToVCM mutant: the shared file takes every record
saveCommentsToVCM_NoSplit(files, comments) ==
  [shared |-> [exists |-> TRUE, comments |-> comments], private |-> files.private]

\* saveCommentsToVCM: split by isPrivate; the shared file is written when it
\* has records or exists already; the private file is written when it has
\* records and deleted otherwise; the private file stores no isPrivate field
saveCommentsToVCM(files, comments) ==
  LET sharedComments == SelectSeq(comments, LAMBDA c : ~c.isPrivate)
      privateComments ==
        WithoutPrivateFlag(SelectSeq(comments, LAMBDA c : c.isPrivate))
  IN [shared |-> IF Len(sharedComments) > 0 \/ files.shared.exists
                 THEN [exists |-> TRUE, comments |-> sharedComments]
                 ELSE files.shared,
      private |-> IF Len(privateComments) > 0
                  THEN [exists |-> TRUE, comments |-> privateComments]
                  ELSE NoFile]

MaxDetectSample == 10

\* the number of pure-comment lines of the text
CommentLineCount(lines, markers) ==
  Cardinality({k \in 1..Len(lines) : isComment(lines[k], markers)})

RECURSIVE DetectLoop(_, _, _)
\* The sampling loop of detectInitialMode: "clean" (a sampled payload is not
\* on its line), "commented" (loop ran through), or "throw": a block record
\* has no originalLine, so lines[undefined] is undefined and reading
\* .includes of it raises, which the catch turns into the no-file fallback.
DetectLoop(lines, sample, k) ==
  IF k > Len(sample) THEN "commented"
  ELSE
    LET c == sample[k] IN
    IF c.type = "inline"
    THEN IF c.originalLine >= Len(lines) \/ c.text = <<>>
            \/ Includes(lines[c.originalLine + 1], c.text)
         THEN DetectLoop(lines, sample, k + 1)
         ELSE "clean"
    ELSE IF c.block # <<>> /\ c.block[1].text # <<>>
         THEN "throw"
         ELSE DetectLoop(lines, sample, k + 1)

\* detectInitialMode: "commented" | "clean".  Markers that are no list
\* cannot be iterated: the loop over them raises at the first line that is
\* not blank, in the try branch (where the catch takes it to the fallback)
\* and in the fallback (where it leaves the function).
detectInitialMode(lines, ext, shared) ==
  LET markers == getCommentMarkersForFile(ext)
      fallback == IF InheritedMember(ext)
                  THEN IF \A k \in 1..Len(lines) : IsBlank(lines[k])
                       THEN "clean" ELSE TypeError
                  ELSE IF CommentLineCount(lines, markers) > 0 THEN "commented"
                  ELSE "clean"
      comments == shared.comments
      nonAlwaysShow == SelectSeq(comments, LAMBDA c : ~c.alwaysShow)
      checkCount == IF Len(nonAlwaysShow) < MaxDetectSample
                    THEN Len(nonAlwaysShow) ELSE MaxDetectSample
      looped == DetectLoop(lines, SubSeq(nonAlwaysShow, 1, checkCount), 1)
  IN IF ~shared.exists THEN fallback
     ELSE IF nonAlwaysShow = <<>>
       THEN IF InheritedMember(ext) THEN fallback
            ELSE IF CommentLineCount(lines, markers) > Len(comments)
            THEN "commented" ELSE "clean"
     ELSE IF looped = "throw" THEN fallback
     ELSE looped

(***************************************************************************)
(* saveVCM                                                                 *)
(***************************************************************************)

FirstIn(S) == Min(S)

\* One step of finalComments = currentComments.map(...) in Commented mode.
\* acc.shifted: positions of existingComments taken out of existingByKey
\* acc.matched: matchedExisting (positions of existingComments)
CommentedStep(existing, private, acc, current) ==
  LET key == Key(current)
      currentText == TextKey(current)
      isPrivateByKey == \E k \in 1..Len(private) : Key(private[k]) = key
      isPrivateByText ==
        currentText # <<>> /\ \E k \in 1..Len(private) : TextKey(private[k]) = currentText
      candidates == {k \in 1..Len(existing) : Key(existing[k]) = key} \ acc.shifted
      byText == {k \in 1..Len(existing) : TextKey(existing[k]) = currentText}
  IN IF isPrivateByKey \/ isPrivateByText
     THEN [acc EXCEPT !.out = Append(@, [current EXCEPT !.isPrivate = TRUE])]
     ELSE IF candidates # {}
     THEN [out |-> Append(acc.out,
                     [current EXCEPT !.alwaysShow = existing[FirstIn(candidates)].alwaysShow]),
           shifted |-> acc.shifted \cup {FirstIn(candidates)},
           matched |-> acc.matched \cup {FirstIn(candidates)}]
     ELSE IF currentText # <<>> /\ byText # {} /\ FirstIn(byText) \notin acc.matched
     THEN [out |-> Append(acc.out,
                     [current EXCEPT !.alwaysShow = existing[FirstIn(byText)].alwaysShow]),
           shifted |-> acc.shifted,
           matched |-> acc.matched \cup {FirstIn(byText)}]
     ELSE [acc EXCEPT !.out = Append(@, current)]

RECURSIVE CommentedLoop(_, _, _, _, _)
CommentedLoop(existing, private, current, acc, k) ==
  IF k > Len(current) THEN acc
  ELSE CommentedLoop(existing, private, current,
                     CommentedStep(existing, private, acc, current[k]), k + 1)

\* The existing records pushed behind the re-extracted ones: every record
\* whose key no current comment has and that was not matched by text, in
\* the iteration order of existingByKey (key groups by first appearance).
UnmatchedExisting(existing, current, matched) ==
  LET keep == {k \in 1..Len(existing) :
                 /\ \A j \in 1..Len(current) : Key(current[j]) # Key(existing[k])
                 /\ k \notin matched}
      group(k) == Min({j \in 1..Len(existing) : Key(existing[j]) = Key(existing[k])})
      idx == SelectIdx(Len(existing), keep, 1)
      sorted == SortByKeys(idx, [i \in 1..Len(idx) |-> group(idx[i])])
  IN [i \in 1..Len(sorted) |-> existing[sorted[i]]]

\* finalComments of the Commented-mode branch
CommentedMerge(existing, private, current) ==
  LET acc == CommentedLoop(existing, private, current,
                           [out |-> <<>>, shifted |-> {}, matched |-> {}], 1)
  IN acc.out \o UnmatchedExisting(existing, current, acc.matched)

\* text_cleanMode = current.text / current.block
WithCleanMode(rec, current) ==
  IF current.type = "inline"
  THEN [rec EXCEPT !.text_cleanMode = current.text]
  ELSE [rec EXCEPT !.block_cleanMode = current.block]

\* { ...current, text_cleanMode: payload } with the payload field deleted
NewCleanModeRecord(current) ==
  [WithCleanMode(current, current) EXCEPT !.text = <<>>, !.block = <<>>]

\* One step of the loop over currentComments in Clean mode.  The candidates
\* are those of existingByAnchor, built before the loop: the first n0
\* records; records pushed by the loop are no candidates.
CleanStep(n0, privateKeys, existing, current) ==
  LET key == Key(current)
      candidates == {k \in 1..n0 : Key(existing[k]) = key}
  IN IF key \in privateKeys THEN existing
     ELSE IF candidates # {}
     THEN [existing EXCEPT ![FirstIn(candidates)] = WithCleanMode(@, current)]
     ELSE Append(existing, NewCleanModeRecord(current))

RECURSIVE CleanLoop(_, _, _, _, _)
CleanLoop(n0, privateKeys, existing, current, k) ==
  IF k > Len(current) THEN existing
  ELSE CleanLoop(n0, privateKeys,
                 CleanStep(n0, privateKeys, existing, current[k]), current, k + 1)

\* text_cleanMode is removed from the records whose key is no longer among
\* the current comments
ClearDeleted(routed, current) ==
  [k \in 1..Len(routed) |->
     IF \E j \in 1..Len(current) : Key(current[j]) = Key(routed[k]) THEN routed[k]
     ELSE [routed[k] EXCEPT !.text_cleanMode = <<>>, !.block_cleanMode = <<>>]]

\* finalComments of the Clean-mode branch (not just injected)
CleanMerge(existing, private, current) ==
  LET privateKeys == {Key(private[k]) : k \in 1..Len(private)}
  IN ClearDeleted(CleanLoop(Len(existing), privateKeys, existing, current, 1), current)

FullKey(c) == <<c.type, c.anchor, TextKey(c)>>

\* the private records not already among finalComments
missingPrivateComments(final, private) ==
  SelectSeq(private,
    LAMBDA pc : \A k \in 1..Len(final) : FullKey(final[k]) # FullKey(pc))

\* The extension state a handler reads and writes:
\*   doc    the text of the open document
\*   files  [shared, private], the two partition files of the document
\*   mode   isCommentedMap entry: "unset" | "commented" | "clean"
\*   just   the document is in justInjectedFromVCM
Ext == "py"

\* finalComments of saveVCM by mode, and the private records that are not
\* among them
SaveList(st, isCommented, currentComments) ==
  LET finalComments ==
        IF isCommented = "commented"
        THEN CommentedMerge(loadShared(st.files), loadPrivate(st.files), currentComments)
        ELSE IF st.just THEN loadShared(st.files)
        ELSE CleanMerge(loadShared(st.files), loadPrivate(st.files), currentComments)
  IN finalComments \o missingPrivateComments(finalComments, loadPrivate(st.files))

\* saveVCM run without a break, once the mode is known and the current
\* comments are extracted: the partition files are written, the mode stored,
\* the flag consumed
SaveWith(st, isCommented, currentComments) ==
  [st EXCEPT !.just = FALSE,
             !.mode = isCommented,
             !.files = saveCommentsToVCM(st.files,
                                         SaveList(st, isCommented, currentComments))]

saveVCM(st) ==
  SaveWith(st,
           IF st.mode = "unset" THEN detectInitialMode(st.doc, Ext, st.files.shared)
           ELSE st.mode,
           extractComments(st.doc, Ext))

(***************************************************************************)
(* toggleCurrentFileComments                                               *)
(***************************************************************************)

\* the merge with text_cleanMode put behind the payload
MergeCleanMode_Append(comment) ==
  IF comment.type = "inline" /\ comment.text_cleanMode # <<>>
  THEN [comment EXCEPT !.text = @ \o comment.text_cleanMode, !.text_cleanMode = <<>>]
  ELSE IF comment.type = "block" /\ comment.block_cleanMode # <<>>
  THEN [comment EXCEPT !.block = @ \o comment.block_cleanMode, !.block_cleanMode = <<>>]
  ELSE comment

\* mergedComments: text_cleanMode is prepended to the payload and nulled
MergeCleanMode(comment) ==
  IF comment.type = "inline" /\ comment.text_cleanMode # <<>>
  THEN [comment EXCEPT !.text = comment.text_cleanMode \o @, !.text_cleanMode = <<>>]
  ELSE IF comment.type = "block" /\ comment.block_cleanMode # <<>>
  THEN [comment EXCEPT !.block = comment.block_cleanMode \o @, !.block_cleanMode = <<>>]
  ELSE comment

\* Commented -> Clean, first step: saveVCM when the shared file is missing
EnsureSaved(st) == IF ~st.files.shared.exists THEN saveVCM(st) ELSE st

\* Commented -> Clean, second step: saveVCM when liveSync is off
SaveUnlessLive(st, liveSyncOn) == IF ~liveSyncOn THEN saveVCM(st) ELSE st

\* Commented -> Clean, last step: strip with the persisted records
StripDoc(st, keepPrivate) ==
  [st EXCEPT !.doc = stripComments(st.doc, Ext, loadAllComments(st.files), keepPrivate),
             !.mode = "clean"]

ToggleToClean(st, keepPrivate, liveSyncOn) ==
  StripDoc(SaveUnlessLive(EnsureSaved(st), liveSyncOn), keepPrivate)

\* Clean -> Commented, the try branch: the merged records are injected into
\* the text as it stands and written to the shared file
InjectMerged(st, mergedComments, includePrivate) ==
  [outcome |-> "merged",
   st |-> [st EXCEPT !.doc = injectComments(st.doc, mergedComments, includePrivate),
                     !.files.shared = [exists |-> TRUE, comments |-> mergedComments],
                     !.mode = "commented",
                     !.just = TRUE]]

\* Clean -> Commented, the catch branch after its saveVCM: strip and inject
\* the saved records, or give up when there is still no shared file
InjectCreated(s1, includePrivate) ==
  IF s1.files.shared.exists /\ ~injectThrows(s1.files.shared.comments, includePrivate)
  THEN [outcome |-> "created",
        st |-> [s1 EXCEPT !.doc = injectComments(
                                    stripComments(s1.doc, Ext, s1.files.shared.comments,
                                                  includePrivate),
                                    s1.files.shared.comments, includePrivate),
                          !.just = TRUE]]
  ELSE [outcome |-> "abort", st |-> s1]

\* mergedComments of the shared records
MergeAll(s) == [k \in 1..Len(s) |-> MergeCleanMode(s[k])]

\* Clean -> Commented.  The result carries outcome:
\*   "merged"   the shared file was read, merged and injected
\*   "created"  the catch branch: saveVCM in Commented mode, strip, inject
\*   "abort"    no data after the recovery save: error message, no edit
ToggleToCommented(st, includePrivate) ==
  IF st.files.shared.exists
     /\ ~injectThrows(MergeAll(st.files.shared.comments), includePrivate)
  THEN InjectMerged(st, MergeAll(st.files.shared.comments), includePrivate)
  ELSE InjectCreated(saveVCM([st EXCEPT !.mode = "commented"]), includePrivate)

(***************************************************************************)
(* The selection of the mark / unmark commands                             *)
(***************************************************************************)

\* the markers of the literal /^(\s*)(#|\/\/|--|%|;)/ the commands test with
AnyMarker == <<MarkerHash, MarkerSlash, MarkerDash, MarkerPercent, MarkerSemi>>

\* String.indexOf, 1-based; 0 for "not found"
IndexOf(line, s) ==
  LET S == {k \in 1..Len(line) : StartsAt(line, s, k)}
  IN IF S = {} THEN 0 ELSE Min(S)

\* "block": the trimmed line starts with a marker; "inline": a marker of the
\* file type sits behind position 0; "none": the command warns and returns
SelectionKind(text, markers) ==
  IF isComment(text, AnyMarker) THEN "block"
  ELSE IF \E m \in 1..Len(markers) : IndexOf(text, markers[m]) > 1 THEN "inline"
  ELSE "none"

\* match.index + 1 of the first marker whose /(\s+)(marker)/ matches; 0 if none
RegexBoundary(text, markers) ==
  LET hits == {m \in 1..Len(markers) : InlineMatch(text, <<markers[m]>>) > 0}
  IN IF hits = {} THEN 0 ELSE InlineMatch(text, <<markers[Min(hits)]>>)

\* position of the whitespace before the first marker whose first occurrence
\* is behind position 0 and follows a whitespace; 0 if none (commentStartIdx)
MarkerBoundary(text, markers) ==
  LET hits == {m \in 1..Len(markers) :
                 /\ IndexOf(text, markers[m]) > 1
                 /\ IsWs(text[IndexOf(text, markers[m]) - 1])}
  IN IF hits = {} THEN 0 ELSE IndexOf(text, markers[Min(hits)]) - 1

\* the line (1-based) whose hash anchors a selected block comment: the next
\* line below that is neither blank nor a comment, else the previous one
\* above; 0 if there is none
BlockAnchorLine(lines, p) ==
  LET code(i) == ~IsBlank(lines[i]) /\ ~isComment(lines[i], AnyMarker)
      below == {i \in (p + 1)..Len(lines) : code(i)}
      above == {i \in 1..(p - 1) : i <= Len(lines) /\ code(i)}
  IN IF below # {} THEN Min(below)
     ELSE IF above # {} THEN CHOOSE i \in above : \A j \in above : j <= i
     ELSE 0

\* anchorHash of the selected line (selectedLine is 0-based) with the text
\* text, in the lines lines; ok = FALSE where the command returns with a
\* message (and where lines[i] of a line that is no longer there raises)
SelectionAnchorAt(text, lines, selectedLine, markers) ==
  LET kind == SelectionKind(text, markers)
      start == RegexBoundary(text, markers)
      anchorLine == BlockAnchorLine(lines, selectedLine + 1)
  IN IF kind = "none" THEN [ok |-> FALSE, anchor |-> NoHash]
     ELSE IF kind = "inline"
       THEN IF start > 1
            THEN [ok |-> TRUE, anchor |-> hashLine(TrimEnd(SubSeq(text, 1, start - 1)))]
            ELSE [ok |-> FALSE, anchor |-> NoHash]
     ELSE IF selectedLine > Len(lines) \/ anchorLine = 0
       THEN [ok |-> FALSE, anchor |-> NoHash]
     ELSE [ok |-> TRUE, anchor |-> hashLine(lines[anchorLine])]

SelectionAnchor(lines, selectedLine, markers) ==
  SelectionAnchorAt(lines[selectedLine + 1], lines, selectedLine, markers)

\* positions of the records of s anchored at anchor
WithAnchor(s, anchor) == {k \in 1..Len(s) : s[k].anchor = anchor}

\* candidates.find(c => c.originalLine === selectedLine), else the first
AtLineOrFirst(s, cand, selectedLine) ==
  IF \E k \in cand : s[k].originalLine = selectedLine
  THEN Min({k \in cand : s[k].originalLine = selectedLine})
  ELSE Min(cand)

ContextMatchScore(vcm, cur) ==
  (IF cur.prevHash # NoHash /\ vcm.prevHash = cur.prevHash THEN 10 ELSE 0)
  + (IF cur.nextHash # NoHash /\ vcm.nextHash = cur.nextHash THEN 10 ELSE 0)

\* the first candidate with the highest context score
BestByContext(comments, cand, cur) ==
  Min({k \in cand : \A j \in cand :
         ContextMatchScore(comments[k], cur) >= ContextMatchScore(comments[j], cur)})

SetFlag(rec, flag, val) ==
  IF flag = "alwaysShow" THEN [rec EXCEPT !.alwaysShow = val]
  ELSE [rec EXCEPT !.isPrivate = val]

NoMark == [ok |-> FALSE, comments |-> <<>>, anchor |-> NoHash]

\* no persisted record: the set becomes the one extracted record, flagged
MarkFresh(extracted, anchor, selectedLine, flag) ==
  IF WithAnchor(extracted, anchor) = {} THEN NoMark
  ELSE [ok |-> TRUE, anchor |-> anchor,
        comments |-> <<SetFlag(extracted[AtLineOrFirst(extracted,
                                 WithAnchor(extracted, anchor), selectedLine)],
                               flag, TRUE)>>]

\* persisted records exist: the record matching the current comment by
\* anchor and context is flagged
MarkExisting(comments, extracted, anchor, selectedLine, flag) ==
  IF WithAnchor(extracted, anchor) = {} \/ WithAnchor(comments, anchor) = {} THEN NoMark
  ELSE [ok |-> TRUE, anchor |-> anchor,
        comments |->
          [comments EXCEPT
             ![BestByContext(comments, WithAnchor(comments, anchor),
                  extracted[AtLineOrFirst(extracted, WithAnchor(extracted, anchor),
                                          selectedLine)])] = SetFlag(@, flag, TRUE)]]

MarkAt(sa, allComments, extracted, selectedLine, flag) ==
  IF ~sa.ok THEN NoMark
  ELSE IF allComments = <<>> THEN MarkFresh(extracted, sa.anchor, selectedLine, flag)
  ELSE MarkExisting(allComments, extracted, sa.anchor, selectedLine, flag)

(***************************************************************************)
(* The extension as a state machine: one open document                     *)
(***************************************************************************)

VARIABLES
  doc,                    \* the text of the open document
  dirty,                  \* the document has changes that are not saved
  files,                  \* [shared, private]: the document's .vcm files
  isCommentedMap,         \* "unset" | "commented" | "clean"
  privateCommentsVisible, \* "unset" | "visible" | "hidden"
  justInjectedFromVCM,    \* the document is in the set
  vcmSyncEnabled,
  liveSync,               \* the vcm.liveSync setting, read at activation
  writeTimeout,           \* the liveSync debounce timer is armed
  reenableTimers,         \* pending 800 ms timers that re-enable the sync
  pure,                   \* the inputs and the result of the pure-function runs
  inFlight,               \* the handlers suspended at an await, oldest first
  liveDocs,               \* the open documents the liveSync watcher sees
  liveTimer,              \* the document the one debounce timer will save
  edits,                  \* number of user edits so far
  commands,               \* number of commands run so far
  lastOp,                 \* the step taken last, and how a handler returned
  ran                     \* the handler the last step belongs to, as the step left it

vars == <<doc, dirty, files, isCommentedMap, privateCommentsVisible, justInjectedFromVCM,
          vcmSyncEnabled, liveSync, writeTimeout, reenableTimers, pure, inFlight,
          liveDocs, liveTimer, edits, commands, lastOp, ran>>

\* Bounds of the model
MaxLines == 5
MaxEdits == 1
MaxTimers == 1
MaxCommands == 2
MaxInFlight == 1

\* Lines of the documents
LDef == <<"d">>
LRet == <<" ", "r">>
LExplain == <<" ", "#", "e">>
LNote == <<" ", "#", "n">>
LCodeY == <<"y">>

\* the documents at activation: a definition, a comment, the commented line;
\* the same with one note above the first code line and below the last one
InitDocs == { <<LDef, LExplain, LRet>>, <<LNote, LDef, LExplain, LRet, LNote>> }

TypedLines == {LNote, LCodeY}

\* the pure-function runs are idle in the extension's state machine
PureIdle == [text |-> <<>>, ext |-> "py", flags |-> <<>>, keepPrivate |-> FALSE,
             op |-> "idle", prev |-> <<>>, out |-> <<>>, mode |-> "none"]

\* no handler is suspended
InFlightIdle == <<>>

St == [doc |-> doc, files |-> files, mode |-> isCommentedMap,
       just |-> justInjectedFromVCM]

\* the state the handlers share
Mach == [doc |-> doc, dirty |-> dirty, files |-> files, mode |-> isCommentedMap,
         pcv |-> privateCommentsVisible, just |-> justInjectedFromVCM,
         sync |-> vcmSyncEnabled, wt |-> writeTimeout, timers |-> reenableTimers]

\* the result of a step becomes the state
SetMach(m) ==
  /\ doc' = m.doc
  /\ dirty' = m.dirty
  /\ files' = m.files
  /\ isCommentedMap' = m.mode
  /\ privateCommentsVisible' = m.pcv
  /\ justInjectedFromVCM' = m.just
  /\ vcmSyncEnabled' = m.sync
  /\ writeTimeout' = m.wt
  /\ reenableTimers' = m.timers

InsertLine(text, p, line) == SubSeq(text, 1, p - 1) \o <<line>> \o SubSeq(text, p, Len(text))

DeleteLine(text, p) == SubSeq(text, 1, p - 1) \o SubSeq(text, p + 1, Len(text))

(***************************************************************************)
(* A handler is an async function: it runs until its next await, and the   *)
(* other callbacks run while it waits.  A task is a handler suspended at   *)
(* an await; one step of a task is the awaited operation taking effect     *)
(* followed by the handler's code up to its next await.                    *)
(*   kind      the handler                                                 *)
(*   pc        the await the task is suspended at                          *)
(*   sub       "saveVCM" inside a (nested) saveVCM, else "cmd"             *)
(*   ret       where the handler goes on when its saveVCM returns          *)
(*   op        how the handler ends                                        *)
(*   alone     nothing but the handler's own steps ran since it started    *)
(*   again     a saveVCM that starts right behind the return of a saveVCM  *)
(*   d         the document of a liveSync save (several open documents)    *)
(*   sel, lineText, anchor   selectedLine, line.text, anchorHash           *)
(*   text      the handler's text or lines, read from the document         *)
(*   svText, svJust          text and wasJustInjected of saveVCM           *)
(*   rdS, rdP  what loadAllComments read                                   *)
(*   exists    what vcmFileExists found                                    *)
(*   out       the comments handed to saveCommentsToVCM                    *)
(*   cur       currentComment of unmarkPrivate                             *)
(*   comments  the comments toggleSplitViewComments extracted              *)
(*   newText   the text the toggle writes                                  *)
(*   edit      the WorkspaceEdit handed to applyEdit; edit.stale: the      *)
(*             document has changed since applyEdit was called             *)
(*   pre       the state the handler started in                            *)
(***************************************************************************)

NoEdit == [kind |-> "none", first |-> 0, last |-> 0, from |-> 0, to |-> 0,
           text |-> <<>>, chars |-> <<>>, stale |-> FALSE]

NewTask(kind, m) ==
  [kind |-> kind, pc |-> "begin", sub |-> "cmd", ret |-> "end", op |-> kind,
   alone |-> TRUE, again |-> FALSE, d |-> 0, sel |-> 0, lineText |-> <<>>, anchor |-> NoHash, text |-> <<>>,
   svText |-> <<>>, svJust |-> FALSE, rdS |-> NoFile, rdP |-> NoFile,
   exists |-> FALSE, out |-> <<>>, cur |-> <<>>, comments |-> <<>>, newText |-> <<>>,
   edit |-> NoEdit, pre |-> m]

\* no handler
NoTask ==
  NewTask("none", [doc |-> <<>>, dirty |-> FALSE,
                   files |-> [shared |-> NoFile, private |-> NoFile], mode |-> "unset",
                   pcv |-> "unset", just |-> FALSE, sync |-> TRUE, wt |-> FALSE,
                   timers |-> 0])

\* saveVCM called by a watcher or by the debounce timer
NewSave(m) ==
  [NewTask("save", m) EXCEPT !.again = (lastOp = "save" /\ ran.pc = "end" /\ ran.alone)]

Min2(a, b) == IF a <= b THEN a ELSE b

\* edit.replace(Range(0, 0, lineCount, 0), newText): the lines of the
\* document as it stood when the range was built
ReplaceAll(lines, newText) ==
  [NoEdit EXCEPT !.kind = "all", !.last = Len(lines), !.text = newText]

\* edit.delete(Range(firstLine, 0, lastLine + 1, 0))
DeleteLines(firstLine, lastLine) ==
  [NoEdit EXCEPT !.kind = "lines", !.first = firstLine, !.last = lastLine]

\* edit.replace of Range(line, from, line, to) by the characters chars
ReplaceCols(line, from, to, chars) ==
  [NoEdit EXCEPT !.kind = "cols", !.first = line, !.from = from, !.to = to,
                 !.chars = chars]

\* edit.delete of Range(firstLine, 0, lastLine + 1, 0), 0-based lines; a range
\* that ends behind the last line is cut at the end of the document
DeleteRange(lines, firstLine, lastLine) ==
  IF firstLine >= Len(lines) THEN lines
  ELSE IF lastLine + 1 < Len(lines)
  THEN SubSeq(lines, 1, firstLine) \o SubSeq(lines, lastLine + 2, Len(lines))
  ELSE SubSeq(lines, 1, firstLine) \o << <<>> >>

\* applyEdit on the document as it stands. The host validates every range
\* against the document: a position behind the end of a line is the end of
\* that line, a position behind the last line is the end of the last line.
\*   "all"    Range(0, 0, last, 0): the text replaces the lines before line
\*            last, or the whole document when it has no line last
\*   "lines"  Range(first, 0, last + 1, 0) is deleted
\*   "cols"   Range(first, from, first, to) is replaced; when the document has
\*            no line first, both ends are the end of the last line and the
\*            characters are put there
ApplyEditTo(lines, e) ==
  CASE e.kind = "none" -> lines
    [] e.kind = "all" ->
         IF e.last >= Len(lines) THEN JoinLines(e.text)
         ELSE SubSeq(JoinLines(e.text), 1, Len(JoinLines(e.text)) - 1)
              \o <<JoinLines(e.text)[Len(JoinLines(e.text))] \o lines[e.last + 1]>>
              \o SubSeq(lines, e.last + 2, Len(lines))
    [] e.kind = "lines" -> DeleteRange(lines, e.first, e.last)
    [] e.kind = "cols" ->
         IF e.first >= Len(lines)
         THEN [JoinLines(lines) EXCEPT ![Len(JoinLines(lines))] = @ \o e.chars]
         ELSE [lines EXCEPT ![e.first + 1] =
                 SubSeq(@, 1, Min2(e.from, Len(@))) \o e.chars
                 \o SubSeq(@, Min2(e.to, Len(@)) + 1, Len(@))]

BlockFirst(c) == Min({c.block[k].originalLine : k \in 1..Len(c.block)})

BlockLast(c) ==
  CHOOSE x \in {c.block[k].originalLine : k \in 1..Len(c.block)} :
    \A k \in 1..Len(c.block) : c.block[k].originalLine <= x

\* the line up to the marker of its inline comment, trimmed at its end
CutAtMarkerTrim(text, markers) ==
  IF MarkerBoundary(text, markers) > 0
  THEN TrimEnd(SubSeq(text, 1, MarkerBoundary(text, markers) - 1)) ELSE text

\* the edit that takes the current comment c out of the document; lineText is
\* the line the command looks the marker up in; cut is the way an inline
\* comment is cut: "marker" | "markerTrim" | "regex"
RemovalEdit(lineText, c, markers, cut) ==
  IF c.type = "block"
  THEN IF c.block = <<>> THEN NoEdit ELSE DeleteLines(BlockFirst(c), BlockLast(c))
  ELSE IF cut = "marker"
    THEN IF MarkerBoundary(lineText, markers) > 0
         THEN ReplaceCols(c.originalLine, MarkerBoundary(lineText, markers) - 1,
                          Len(lineText), <<>>)
         ELSE NoEdit
  ELSE IF cut = "markerTrim"
    THEN IF MarkerBoundary(lineText, markers) > 0
         THEN ReplaceCols(c.originalLine, 0, Len(lineText),
                          CutAtMarkerTrim(lineText, markers))
         ELSE NoEdit
  ELSE IF RegexBoundary(lineText, markers) > 1
    THEN ReplaceCols(c.originalLine, RegexBoundary(lineText, markers) - 1,
                     Len(lineText), <<>>)
    ELSE NoEdit

Init ==
  /\ doc \in InitDocs
  /\ dirty = FALSE
  /\ files = [shared |-> NoFile, private |-> NoFile]
  /\ isCommentedMap = "unset"
  /\ privateCommentsVisible = "unset"
  /\ justInjectedFromVCM = FALSE
  /\ vcmSyncEnabled = TRUE
  /\ liveSync \in BOOLEAN
  /\ writeTimeout = FALSE
  /\ reenableTimers = 0
  /\ pure = PureIdle
  /\ inFlight = InFlightIdle
  /\ liveDocs = <<>>
  /\ liveTimer = 0
  /\ edits = 0
  /\ commands = 0
  /\ lastOp = "init"
  /\ ran = NoTask

Res(t, m) == [t |-> t, m |-> m, spawn |-> <<>>]

\* the handler returns
End(t, m, op) == Res([t EXCEPT !.pc = "end", !.op = op], m)

\* await loadAllComments
CallLoad(t, m) == Res([t EXCEPT !.pc = "readShared"], m)

\* await saveCommentsToVCM(relativePath, comments)
CallStore(t, m, comments) == Res([t EXCEPT !.pc = "stat", !.out = comments], m)

\* what loadAllComments read
Loaded(t) == [shared |-> t.rdS, private |-> t.rdP]

\* saveVCM up to its first await: the flag is consumed, the text read
CallSaveVCM(t, m, ret) ==
  CallLoad([t EXCEPT !.sub = "saveVCM", !.ret = ret, !.svText = m.doc, !.svJust = m.just],
           [m EXCEPT !.just = FALSE])

\* isCommentedMap.get(doc.uri.fsPath) === undefined
ModeUndefined(m) == m.mode = "unset"

\* saveVCM once the mode is known: the merge, then await saveCommentsToVCM
SaveMerged(t, m, isCommented) ==
  CallStore(t, m,
    SaveList([doc |-> t.svText, files |-> Loaded(t), mode |-> m.mode, just |-> t.svJust],
             isCommented, extractComments(t.svText, Ext)))

\* the toggle once the mode is known
ToggleBranch(t, m) ==
  IF m.mode = "commented" THEN Res([t EXCEPT !.pc = "toggleStat"], m)
  ELSE Res([t EXCEPT !.pc = "toggleRead"], m)

\* Commented -> Clean behind the stat: saveVCM when liveSync is off, then
\* loadAllComments
ToggleEnsured(t, m) ==
  IF ~liveSync THEN CallSaveVCM(t, m, "toggleLoad") ELSE CallLoad(t, m)

\* the tail of the toggle: the range is built, applyEdit awaited
ToggleEdit(t, m, newText, op) ==
  Res([t EXCEPT !.pc = "applyEdit", !.op = op, !.edit = ReplaceAll(m.doc, newText)], m)

\* Commented -> Clean, last step: strip the text read at the start with the
\* persisted records
ToggleLoaded(t, m) ==
  ToggleEdit(t, [m EXCEPT !.mode = "clean"],
             stripComments(t.text, Ext, loadAllComments(Loaded(t)), m.pcv = "visible"),
             "toggleToClean")

\* toggleSplitViewComments behind its comments: the clean version and the
\* version with comments are built from the text as it is now (injectComments
\* may raise, which ends the command); the mode is detected when it is not
\* set.  What follows shows the version in the split pane.
SplitViewBuilt(t, m, comments) ==
  IF injectThrows(comments, m.pcv = "visible") THEN End(t, m, "splitViewError")
  ELSE IF ModeUndefined(m) THEN Res([t EXCEPT !.pc = "detect"], m)
  ELSE End(t, m, "splitView")

\* saveVCM returns to the handler that awaits it
Return(t0, m) ==
  LET t == [t0 EXCEPT !.sub = "cmd"] IN
  CASE t.ret = "toggleEnsured" -> ToggleEnsured(t, m)
    [] t.ret = "toggleLoad" -> CallLoad(t, m)
    [] t.ret = "toggleCreated" -> Res([t EXCEPT !.pc = "toggleReadBack"], m)
    [] t.ret = "splitViewSaved" -> SplitViewBuilt(t, m, t.comments)
    [] OTHER -> End(t, m, "save")

FirstWithAnchor(extracted, anchor) == extracted[Min(WithAnchor(extracted, anchor))]

\* markAlwaysShow and markPrivate behind loadAllComments
MarkLoaded(t, m, flag, none) ==
  LET marked == MarkAt([ok |-> TRUE, anchor |-> t.anchor], loadAllComments(Loaded(t)),
                       extractComments(m.doc, Ext), t.sel, flag)
  IN IF marked.ok THEN CallStore(t, m, marked.comments) ELSE End(t, m, none)

\* markPrivate behind saveCommentsToVCM: the comment is taken out of the
\* document unless the private comments are visible
MarkPrivateStored(t, m) ==
  LET extracted == extractComments(m.doc, Ext) IN
  IF m.pcv = "visible" THEN End(t, m, "markPrivate")
  ELSE IF WithAnchor(extracted, t.anchor) = {}
    THEN End(t, [m EXCEPT !.pcv = "hidden"], "markPrivateNoComment")
  ELSE Res([t EXCEPT !.pc = "applyEdit", !.op = "markPrivateHidden",
                     !.edit = RemovalEdit(
                                m.doc[FirstWithAnchor(extracted, t.anchor).originalLine + 1],
                                FirstWithAnchor(extracted, t.anchor),
                                getCommentMarkersForFile(Ext), "markerTrim")], m)

ClearAlwaysShow(comments, anchor) ==
  [k \in 1..Len(comments) |->
     IF comments[k].anchor = anchor THEN [comments[k] EXCEPT !.alwaysShow = FALSE]
     ELSE comments[k]]

\* unmarkAlwaysShow behind loadAllComments: the lines are read, the anchor
\* found, the flag cleared
UnmarkAlwaysShowLoaded(t, m) ==
  LET allComments == loadAllComments(Loaded(t))
      sa == SelectionAnchorAt(t.lineText, m.doc, t.sel, getCommentMarkersForFile(Ext))
  IN IF \/ allComments = <<>>
        \/ ~sa.ok
        \/ ~\E k \in WithAnchor(allComments, sa.anchor) : allComments[k].alwaysShow
     THEN End(t, m, "unmarkAlwaysShowNone")
     ELSE CallStore([t EXCEPT !.anchor = sa.anchor, !.text = m.doc], m,
                    ClearAlwaysShow(allComments, sa.anchor))

\* unmarkAlwaysShow behind saveCommentsToVCM: in Clean mode the comment is
\* taken out of the document
UnmarkAlwaysShowStored(t, m) ==
  LET extracted == extractComments(m.doc, Ext) IN
  IF m.mode = "clean" /\ WithAnchor(extracted, t.anchor) # {}
  THEN IF /\ FirstWithAnchor(extracted, t.anchor).type = "inline"
          /\ FirstWithAnchor(extracted, t.anchor).originalLine >= Len(t.text)
       THEN End(t, m, "unmarkAlwaysShowError")
       ELSE Res([t EXCEPT !.pc = "applyEdit", !.op = "unmarkAlwaysShowRemoved",
                          !.edit = RemovalEdit(
                                     IF FirstWithAnchor(extracted, t.anchor).type = "inline"
                                     THEN t.text[FirstWithAnchor(extracted, t.anchor).originalLine + 1]
                                     ELSE <<>>,
                                     FirstWithAnchor(extracted, t.anchor),
                                     getCommentMarkersForFile(Ext), "marker")], m)
  ELSE End(t, m, "unmarkAlwaysShow")

PrivateWithAnchor(comments, anchor) ==
  {k \in WithAnchor(comments, anchor) : comments[k].isPrivate}

\* unmarkPrivate behind loadAllComments
UnmarkPrivateLoaded(t, m) ==
  LET comments == loadAllComments(Loaded(t))
      sa == SelectionAnchorAt(t.lineText, m.doc, t.sel, getCommentMarkersForFile(Ext))
      extracted == extractComments(m.doc, Ext)
  IN IF \/ ~sa.ok
        \/ WithAnchor(extracted, sa.anchor) = {}
        \/ PrivateWithAnchor(comments, sa.anchor) = {}
     THEN End(t, m, "unmarkPrivateNone")
     ELSE LET currentComment ==
                extracted[AtLineOrFirst(extracted, WithAnchor(extracted, sa.anchor), t.sel)]
          IN CallStore([t EXCEPT !.anchor = sa.anchor, !.text = m.doc,
                                 !.cur = <<currentComment>>], m,
               [comments EXCEPT
                  ![BestByContext(comments, PrivateWithAnchor(comments, sa.anchor),
                                  currentComment)].isPrivate = FALSE])

\* unmarkPrivate behind saveCommentsToVCM
UnmarkPrivateStored(t, m) ==
  IF \/ m.mode # "commented" /\ m.pcv = "visible"
     \/ m.mode = "commented" /\ m.pcv # "visible"
  THEN Res([t EXCEPT !.pc = "applyEdit", !.op = "unmarkPrivateRemoved",
                     !.edit = RemovalEdit(
                                IF t.cur[1].type = "inline"
                                THEN t.text[t.cur[1].originalLine + 1] ELSE <<>>,
                                t.cur[1], getCommentMarkersForFile(Ext), "regex")], m)
  ELSE End(t, m, "unmarkPrivate")

RECURSIVE HideLoop(_, _, _, _, _)
\* the line loop of the hide branch of togglePrivateComments
HideLoop(lines, markers, linesToRemove, inlineLines, p) ==
  IF p > Len(lines) THEN <<>>
  ELSE (IF (p - 1) \in linesToRemove THEN <<>>
        ELSE IF (p - 1) \in inlineLines THEN <<CutAtMarkerTrim(lines[p], markers)>>
        ELSE <<lines[p]>>)
       \o HideLoop(lines, markers, linesToRemove, inlineLines, p + 1)

\* the text without the current comments anchored at a private anchor
HidePrivateText(lines, markers, current, privateAnchors) ==
  JoinLines(HideLoop(lines, markers,
    BlockLinesOf({c \in current : c.type = "block" /\ c.anchor \in privateAnchors}),
    {c.originalLine : c \in {x \in current : x.type = "inline" /\ x.anchor \in privateAnchors}},
    1))

\* togglePrivateComments behind loadAllComments
TogglePrivateWith(t, m, privateComments, current, privateAnchors) ==
  IF privateComments = <<>> THEN End(t, [m EXCEPT !.sync = TRUE], "togglePrivateNone")
  ELSE IF IF m.pcv # "unset" THEN m.pcv = "visible"
          ELSE \E c \in current : c.anchor \in privateAnchors
  THEN ToggleEdit(t, [m EXCEPT !.pcv = "hidden"],
                  HidePrivateText(t.text, getCommentMarkersForFile(Ext), current,
                                  privateAnchors),
                  "togglePrivateHide")
  ELSE IF injectThrows(privateComments, TRUE)
  THEN End(t, [m EXCEPT !.sync = TRUE], "togglePrivateError")
  ELSE ToggleEdit(t, [m EXCEPT !.pcv = "visible", !.just = TRUE],
                  injectComments(t.text, privateComments, TRUE), "togglePrivateShow")

TogglePrivateLoaded(t, m) ==
  TogglePrivateWith(t, m, loadPrivate(Loaded(t)), SeqToSet(extractComments(t.text, Ext)),
                    {c.anchor : c \in SeqToSet(loadPrivate(Loaded(t)))})

\* the handler goes on behind await loadAllComments
AfterLoad(t, m) ==
  CASE t.sub = "saveVCM" ->
         IF ModeUndefined(m) THEN Res([t EXCEPT !.pc = "detect"], m)
         ELSE SaveMerged(t, m, m.mode)
    [] t.sub # "saveVCM" /\ t.kind = "toggle" -> ToggleLoaded(t, m)
    [] t.sub # "saveVCM" /\ t.kind = "markAlwaysShow" ->
         MarkLoaded(t, m, "alwaysShow", "markAlwaysShowNone")
    [] t.sub # "saveVCM" /\ t.kind = "markPrivate" ->
         MarkLoaded(t, m, "isPrivate", "markPrivateNone")
    [] t.sub # "saveVCM" /\ t.kind = "unmarkAlwaysShow" -> UnmarkAlwaysShowLoaded(t, m)
    [] t.sub # "saveVCM" /\ t.kind = "unmarkPrivate" -> UnmarkPrivateLoaded(t, m)
    [] OTHER -> TogglePrivateLoaded(t, m)

\* the handler goes on behind await saveCommentsToVCM
AfterStore(t, m) ==
  CASE t.sub = "saveVCM" -> Return(t, m)
    [] t.sub # "saveVCM" /\ t.kind = "markPrivate" -> MarkPrivateStored(t, m)
    [] t.sub # "saveVCM" /\ t.kind = "unmarkAlwaysShow" -> UnmarkAlwaysShowStored(t, m)
    [] t.sub # "saveVCM" /\ t.kind = "unmarkPrivate" -> UnmarkPrivateStored(t, m)
    [] OTHER -> End(t, m, "markAlwaysShow")

\* readFile of loadAllComments: the shared file
ReadSharedStep(t, m) == Res([t EXCEPT !.rdS = m.files.shared, !.pc = "readPrivate"], m)

\* readFile of loadAllComments: the private file
ReadPrivateStep(t, m) == AfterLoad([t EXCEPT !.rdP = m.files.private], m)

\* await detectInitialMode, and isCommentedMap.set of its result
DetectStep(t, m) ==
  LET mode == detectInitialMode(m.doc, Ext, m.files.shared) IN
  IF t.sub = "saveVCM" THEN SaveMerged(t, [m EXCEPT !.mode = mode], mode)
  ELSE IF t.kind = "splitView" THEN End(t, [m EXCEPT !.mode = mode], "splitView")
  ELSE ToggleBranch(t, [m EXCEPT !.mode = mode])

\* vcmFileExists of saveCommentsToVCM
StatStep(t, m) == Res([t EXCEPT !.exists = m.files.shared.exists, !.pc = "writeShared"], m)

\* what saveCommentsToVCM makes of the files, the shared file being there or
\* not as vcmFileExists found it
Written(t, fs) ==
  saveCommentsToVCM([shared |-> [exists |-> t.exists, comments |-> <<>>],
                     private |-> fs.private], t.out)

\* writeFile of the shared file, when it has records or exists
WriteSharedStep(t, m) ==
  Res([t EXCEPT !.pc = "writePrivate"],
      IF Written(t, m.files).shared.exists
      THEN [m EXCEPT !.files.shared = Written(t, m.files).shared] ELSE m)

\* writeFile or delete of the private file
WritePrivateStep(t, m) ==
  AfterStore(t, [m EXCEPT !.files.private = Written(t, m.files).private])

\* fs.stat of the toggle: saveVCM when there is no shared file
ToggleStatStep(t, m) ==
  IF ~m.files.shared.exists THEN CallSaveVCM(t, m, "toggleEnsured")
  ELSE ToggleEnsured(t, m)

\* Clean -> Commented, the catch branch: the mode is set, saveVCM awaited
ToggleCatch(t, m) == CallSaveVCM(t, [m EXCEPT !.mode = "commented"], "toggleCreated")

\* Clean -> Commented, readFile of the try branch: the merged records are
\* injected into the text read at the start; without a file, or when
\* injectComments raises, the catch branch runs
ToggleReadStep(t, m) ==
  IF /\ m.files.shared.exists
     /\ ~injectThrows(MergeAll(m.files.shared.comments), m.pcv = "visible")
  THEN Res([t EXCEPT !.pc = "toggleWrite", !.rdS = m.files.shared,
                     !.out = MergeAll(m.files.shared.comments),
                     !.newText = injectComments(t.text, MergeAll(m.files.shared.comments),
                                                m.pcv = "visible")], m)
  ELSE ToggleCatch(t, m)

\* Clean -> Commented, writeFile of the try branch
ToggleWriteStep(t, m) ==
  ToggleEdit(t, [m EXCEPT !.files.shared = [exists |-> TRUE, comments |-> t.out],
                          !.mode = "commented", !.just = TRUE],
             t.newText, "toggleToCommented")

\* the catch branch without its return: the tail of the command runs
ToggleReadBackStep_NoReturn(t, m) ==
  IF /\ m.files.shared.exists
     /\ ~injectThrows(m.files.shared.comments, m.pcv = "visible")
  THEN ToggleEdit(t, [m EXCEPT !.just = TRUE],
                  injectComments(stripComments(t.text, Ext, m.files.shared.comments,
                                               m.pcv = "visible"),
                                 m.files.shared.comments, m.pcv = "visible"),
                  "toggleCreated")
  ELSE ToggleEdit(t, [m EXCEPT !.sync = TRUE], <<>>, "toggleAbort")

\* Clean -> Commented, readFile of the catch branch behind its saveVCM: strip
\* and inject the saved records, or give up when there is still no data
ToggleReadBackStep(t, m) ==
  IF /\ m.files.shared.exists
     /\ ~injectThrows(m.files.shared.comments, m.pcv = "visible")
  THEN ToggleEdit(t, [m EXCEPT !.just = TRUE],
                  injectComments(stripComments(t.text, Ext, m.files.shared.comments,
                                               m.pcv = "visible"),
                                 m.files.shared.comments, m.pcv = "visible"),
                  "toggleCreated")
  ELSE End(t, [m EXCEPT !.sync = TRUE], "toggleAbort")

\* readFile of toggleSplitViewComments: the comments of the shared file; when
\* the file cannot be read the comments are extracted and saveVCM is awaited,
\* whatever vcmSyncEnabled is
SplitViewReadStep(t, m) ==
  IF m.files.shared.exists THEN SplitViewBuilt(t, m, m.files.shared.comments)
  ELSE CallSaveVCM([t EXCEPT !.comments = extractComments(m.doc, Ext)], m,
                   "splitViewSaved")

\* changeWatcher: with liveSync, a change event re-arms the debounce timer
\* unless the sync is disabled
changeWatcher(m, changed) ==
  [m EXCEPT !.wt = IF changed /\ liveSync /\ m.sync THEN TRUE ELSE @]

\* the edit holds an operation the host carries out on the document: a range
\* that is not empty after its validation, or characters to put in. An
\* operation that deletes changes the text; one that replaces may put in
\* the text that was there.
EditTouches(lines, e) ==
  CASE e.kind = "none" -> FALSE
    [] e.kind = "all" ->
         \/ JoinLines(e.text) # << <<>> >>
         \/ (e.last > 0 /\ JoinLines(lines) # << <<>> >>)
    [] e.kind = "lines" -> ApplyEditTo(lines, e) # lines
    [] e.kind = "cols" -> e.chars # <<>> \/ ApplyEditTo(lines, e) # lines

\* the document changes by the edit: it is dirty, the change event is raised
\* and it has a new version. An applied edit that changes the text is a
\* change. For an applied edit whose operation leaves the text as it was the
\* host decides (counts): the editor carries the operation out without
\* comparing the texts, a host that compares them drops it.
EditChanges(t, m, applied, counts) ==
  applied /\ (\/ ApplyEditTo(m.doc, t.edit) # m.doc
              \/ (counts /\ EditTouches(m.doc, t.edit)))

\* workspace.applyEdit resolves. The handlers do not look at its result and
\* go on in either case; markPrivate sets its flag.
\*   applied   the host applies the edit to the document as it stands and
\*             raises the change event for a change (EditChanges)
\*   ~applied  the host rejects the edit and the document stays as it is. The
\*             host is not part of the extension: the editor applies an edit
\*             to the version of the document the edit was built for, so an
\*             edit that is stale may be rejected, or its ranges are validated
\*             against the changed document and it is applied; both outcomes
\*             are steps of the model.
ApplyEditStep(t, m, applied, counts) ==
  LET newDoc == IF applied THEN ApplyEditTo(m.doc, t.edit) ELSE m.doc
      changed == EditChanges(t, m, applied, counts)
      m1 == changeWatcher([m EXCEPT !.doc = newDoc, !.dirty = @ \/ changed], changed)
  IN Res([t EXCEPT !.pc = "saveDocument"],
         IF t.kind = "markPrivate" THEN [m1 EXCEPT !.just = TRUE] ELSE m1)

\* the document is saved: it is clean; the host may raise a change event for
\* the new dirty state (dirtyEvent); saveWatcher starts saveVCM unless the
\* sync is disabled
SaveEvent(m, dirtyEvent) ==
  LET m1 == changeWatcher([m EXCEPT !.dirty = FALSE], dirtyEvent /\ m.dirty)
  IN IF m.sync
     THEN LET r == CallSaveVCM(NewSave(m1), m1, "end")
          IN [m |-> r.m, spawn |-> <<r.t>>]
     ELSE [m |-> m1, spawn |-> <<>>]

\* workbench.action.files.save saves the document in any case, doc.save()
\* a dirty one
SavesAlways(t) == t.kind \in {"toggle", "togglePrivate", "markPrivate"}

\* the save takes effect and the handler runs to its end: the toggles start
\* the 800 ms timer, markPrivate hides the private comments
SaveDocumentStep(t, m, dirtyEvent) ==
  LET saved == IF SavesAlways(t) \/ m.dirty THEN SaveEvent(m, dirtyEvent)
               ELSE [m |-> m, spawn |-> <<>>]
      m2 == IF t.kind \in {"toggle", "togglePrivate"}
            THEN [saved.m EXCEPT !.timers = @ + 1]
            ELSE IF t.kind = "markPrivate" THEN [saved.m EXCEPT !.pcv = "hidden"]
            ELSE saved.m
  IN [t |-> [t EXCEPT !.pc = "end"], m |-> m2, spawn |-> saved.spawn]

Alive(tasks) == SelectSeq(tasks, LAMBDA t : t.pc # "end")

\* a step that is not theirs runs while the tasks wait
Shake(tasks) == [i \in 1..Len(tasks) |-> [tasks[i] EXCEPT !.alone = FALSE]]

\* the document changes while the tasks wait: the edits handed to applyEdit
\* that have not taken effect were built for an older version of the document
Outdate(tasks, changed) ==
  [i \in 1..Len(tasks) |->
     IF changed /\ tasks[i].pc = "applyEdit"
     THEN [tasks[i] EXCEPT !.alone = FALSE, !.edit.stale = TRUE]
     ELSE [tasks[i] EXCEPT !.alone = FALSE]]

\* a handler starts and runs to its first await
Start(r, label) ==
  /\ SetMach(r.m)
  /\ inFlight' = Alive(Shake(inFlight) \o <<r.t>> \o r.spawn)
  /\ lastOp' = label
  /\ ran' = r.t
  /\ UNCHANGED <<liveSync, pure, liveDocs, liveTimer, edits>>

\* the task at position i does its step; changed: the step is a change of the
\* document
ResumeWith(i, r, changed) ==
  /\ SetMach(r.m)
  /\ inFlight' = Alive([Outdate(inFlight, changed) EXCEPT ![i] = r.t] \o r.spawn)
  /\ lastOp' = IF r.t.pc = "end" THEN r.t.op ELSE inFlight[i].pc
  /\ ran' = r.t
  /\ UNCHANGED <<liveSync, pure, liveDocs, liveTimer, edits, commands>>

Resume(i, r) == ResumeWith(i, r, r.m.doc # doc)

Waiting(pc) == {i \in 1..Len(inFlight) : inFlight[i].pc = pc}

\* the bounds a specification starts its handlers under: the handlers in
\* flight, the pending timers, the commands of a run, and whether the saves
\* count as commands
Limits(tasks, timers, cmds, saves) ==
  [tasks |-> tasks, timers |-> timers, commands |-> cmds, saves |-> saves]

SpecLimits == Limits(MaxInFlight, MaxTimers, MaxCommands, FALSE)

\* a saveVCM of a watcher or of the timer may start
SaveFrame(lim, starts) ==
  /\ (starts /\ lim.saves) => commands < lim.commands
  /\ commands' = IF starts /\ lim.saves THEN commands + 1 ELSE commands

\* a command may start
Frame(lim) ==
  /\ Len(inFlight) < lim.tasks
  /\ commands < lim.commands
  /\ commands' = commands + 1

\* the 800 ms timers a toggle in flight will start count as pending
TimerFree(lim) ==
  reenableTimers
    + Cardinality({i \in 1..Len(inFlight) : inFlight[i].kind \in {"toggle", "togglePrivate"}})
  < lim.timers

\* the edits of the user: a line typed at position p, or line p deleted
Typed(p, l) == Len(doc) < MaxLines /\ doc' = InsertLine(doc, p, l)

Deleted(p) == Len(doc) > 1 /\ doc' = DeleteLine(doc, p)

\* an edit of the user: the document is dirty, the change event is raised
Edited ==
  /\ edits < MaxEdits
  /\ edits' = edits + 1
  /\ dirty' = TRUE
  /\ writeTimeout' = changeWatcher(Mach, TRUE).wt
  /\ inFlight' = Outdate(inFlight, TRUE)
  /\ lastOp' = "edit"
  /\ ran' = NoTask
  /\ UNCHANGED <<files, isCommentedMap, privateCommentsVisible, justInjectedFromVCM,
                 vcmSyncEnabled, liveSync, reenableTimers, pure, liveDocs,
                 liveTimer, commands>>

\* The user types a line or deletes one
Edit ==
  /\ \/ \E p \in 1..(Len(doc) + 1), l \in TypedLines : Typed(p, l)
     \/ \E p \in 1..Len(doc) : Deleted(p)
  /\ Edited

\* The user saves the document: saveWatcher
\* dirtyEvent: the host raises a change event for the new dirty state (taken
\* only where the event changes the state)
UserSaveAt(lim, dirtyEvent) ==
  /\ dirtyEvent => dirty /\ liveSync /\ vcmSyncEnabled /\ ~writeTimeout
  /\ vcmSyncEnabled => Len(inFlight) < lim.tasks
  /\ SaveFrame(lim, vcmSyncEnabled)
  /\ SetMach(SaveEvent(Mach, dirtyEvent).m)
  /\ inFlight' = Shake(inFlight) \o SaveEvent(Mach, dirtyEvent).spawn
  /\ lastOp' = IF vcmSyncEnabled THEN "saveBegin" ELSE "saveSkipped"
  /\ ran' = IF vcmSyncEnabled THEN SaveEvent(Mach, dirtyEvent).spawn[1] ELSE NoTask
  /\ UNCHANGED <<liveSync, pure, liveDocs, liveTimer, edits>>

UserSave == \E dirtyEvent \in BOOLEAN : UserSaveAt(SpecLimits, dirtyEvent)

\* the liveSync debounce timer fires: saveVCM(e.document)
DebounceFireAt(lim) ==
  /\ Len(inFlight) < lim.tasks
  /\ SaveFrame(lim, TRUE)
  /\ Start(CallSaveVCM(NewSave(Mach), [Mach EXCEPT !.wt = FALSE], "end"),
           "saveBegin")

DebounceFire == writeTimeout /\ DebounceFireAt(SpecLimits)

\* setTimeout(() => (vcmSyncEnabled = true), 800) fires
ReenableSync ==
  /\ reenableTimers > 0
  /\ reenableTimers' = reenableTimers - 1
  /\ vcmSyncEnabled' = TRUE
  /\ inFlight' = Shake(inFlight)
  /\ lastOp' = "reenable"
  /\ ran' = NoTask
  /\ UNCHANGED <<doc, dirty, files, isCommentedMap, privateCommentsVisible,
                 justInjectedFromVCM, liveSync, writeTimeout, pure,
                 liveDocs, liveTimer, edits, commands>>

\* The command vcm-view-comments-mirror.toggleCurrentFileComments up to its
\* first await: the sync is disabled, the text read
ToggleAt(lim) ==
  /\ Frame(lim)
  /\ LET m == [Mach EXCEPT !.sync = FALSE]
         t == [NewTask("toggle", Mach) EXCEPT !.text = doc]
     IN Start(IF isCommentedMap = "unset" THEN Res([t EXCEPT !.pc = "detect"], m)
              ELSE ToggleBranch(t, m),
              "toggleBegin")

Toggle == TimerFree(SpecLimits) /\ ToggleAt(SpecLimits)

\* The commands below return with a message and without a change of state
\* when the selected line is no comment or has no anchor: such a run is a
\* stuttering step, and the actions are enabled for the other runs only.

\* markAlwaysShow and markPrivate up to loadAllComments: the anchor of the
\* selected line
MarkBegin(lim, kind, selectedLine, label) ==
  LET sa == SelectionAnchor(doc, selectedLine, getCommentMarkersForFile(Ext)) IN
  /\ sa.ok
  /\ Frame(lim)
  /\ Start(CallLoad([NewTask(kind, Mach) EXCEPT !.sel = selectedLine,
                                                !.anchor = sa.anchor], Mach),
           label)

\* unmarkAlwaysShow and unmarkPrivate up to loadAllComments: the selected
\* line is a comment
UnmarkBegin(lim, kind, selectedLine, label) ==
  /\ SelectionKind(doc[selectedLine + 1], getCommentMarkersForFile(Ext)) # "none"
  /\ Frame(lim)
  /\ Start(CallLoad([NewTask(kind, Mach) EXCEPT !.sel = selectedLine,
                                                !.lineText = doc[selectedLine + 1]],
                    Mach),
           label)

\* The command vcm-view-comments-mirror.markAlwaysShow on the selected line
markAlwaysShow ==
  \E selectedLine \in 0..(Len(doc) - 1) :
    MarkBegin(SpecLimits, "markAlwaysShow", selectedLine, "markAlwaysShowBegin")

\* The command vcm-view-comments-mirror.markPrivate on the selected line
markPrivate ==
  \E selectedLine \in 0..(Len(doc) - 1) :
    MarkBegin(SpecLimits, "markPrivate", selectedLine, "markPrivateBegin")

\* The command vcm-view-comments-mirror.unmarkAlwaysShow on the selected line
unmarkAlwaysShow ==
  \E selectedLine \in 0..(Len(doc) - 1) :
    UnmarkBegin(SpecLimits, "unmarkAlwaysShow", selectedLine, "unmarkAlwaysShowBegin")

\* The command vcm-view-comments-mirror.unmarkPrivate on the selected line
unmarkPrivate ==
  \E selectedLine \in 0..(Len(doc) - 1) :
    UnmarkBegin(SpecLimits, "unmarkPrivate", selectedLine, "unmarkPrivateBegin")

\* The command vcm-view-comments-mirror.togglePrivateComments up to
\* loadAllComments
TogglePrivateAt(lim) ==
  /\ Frame(lim)
  /\ Start(CallLoad([NewTask("togglePrivate", Mach) EXCEPT !.text = doc],
                    [Mach EXCEPT !.sync = FALSE]),
           "togglePrivateBegin")

togglePrivateComments == TimerFree(SpecLimits) /\ TogglePrivateAt(SpecLimits)

\* The command vcm-view-comments-mirror.toggleSplitViewComments up to its
\* first await, the readFile of the shared file
toggleSplitViewComments ==
  /\ Frame(SpecLimits)
  /\ Start(Res([NewTask("splitView", Mach) EXCEPT !.pc = "splitViewRead"], Mach),
           "splitViewBegin")

\* The awaited operations take effect, each followed by its handler's code
\* up to the next await
ReadShared == \E i \in Waiting("readShared") : Resume(i, ReadSharedStep(inFlight[i], Mach))

ReadPrivate == \E i \in Waiting("readPrivate") : Resume(i, ReadPrivateStep(inFlight[i], Mach))

DetectMode == \E i \in Waiting("detect") : Resume(i, DetectStep(inFlight[i], Mach))

StatShared == \E i \in Waiting("stat") : Resume(i, StatStep(inFlight[i], Mach))

WriteShared == \E i \in Waiting("writeShared") : Resume(i, WriteSharedStep(inFlight[i], Mach))

WritePrivate ==
  \E i \in Waiting("writePrivate") : Resume(i, WritePrivateStep(inFlight[i], Mach))

ToggleStat == \E i \in Waiting("toggleStat") : Resume(i, ToggleStatStep(inFlight[i], Mach))

ToggleRead == \E i \in Waiting("toggleRead") : Resume(i, ToggleReadStep(inFlight[i], Mach))

ToggleWrite == \E i \in Waiting("toggleWrite") : Resume(i, ToggleWriteStep(inFlight[i], Mach))

ToggleReadBack ==
  \E i \in Waiting("toggleReadBack") : Resume(i, ToggleReadBackStep(inFlight[i], Mach))

SplitViewRead ==
  \E i \in Waiting("splitViewRead") : Resume(i, SplitViewReadStep(inFlight[i], Mach))

\* an edit that is not stale is applied; a stale one is applied or rejected;
\* an applied edit that leaves the text as it was is a change or is none
ApplyEdit ==
  \E i \in Waiting("applyEdit"), applied \in BOOLEAN, counts \in BOOLEAN :
    /\ applied \/ inFlight[i].edit.stale
    /\ counts => /\ applied
                 /\ ApplyEditTo(doc, inFlight[i].edit) = doc
                 /\ EditTouches(doc, inFlight[i].edit)
    /\ ResumeWith(i, ApplyEditStep(inFlight[i], Mach, applied, counts),
                  EditChanges(inFlight[i], Mach, applied, counts))

SaveDocument ==
  \E i \in Waiting("saveDocument"), dirtyEvent \in BOOLEAN :
    /\ dirtyEvent => dirty /\ liveSync /\ vcmSyncEnabled /\ ~writeTimeout
    /\ Resume(i, SaveDocumentStep(inFlight[i], Mach, dirtyEvent))

\* the steps of the handlers in flight
Steps ==
  \/ ReadShared
  \/ ReadPrivate
  \/ DetectMode
  \/ StatShared
  \/ WriteShared
  \/ WritePrivate
  \/ ToggleStat
  \/ ToggleRead
  \/ ToggleWrite
  \/ ToggleReadBack
  \/ ApplyEdit
  \/ SaveDocument

\* the awaits a handler is suspended at, and the ways the handlers return
Awaits ==
  {"readShared", "readPrivate", "detect", "stat", "writeShared", "writePrivate",
   "toggleStat", "toggleRead", "toggleWrite", "toggleReadBack", "splitViewRead",
   "applyEdit", "saveDocument"}

Returns ==
  {"save", "toggleToClean", "toggleToCommented", "toggleCreated", "toggleAbort",
   "togglePrivateNone", "togglePrivateHide", "togglePrivateShow", "togglePrivateError",
   "toggleWriteFailed", "saveWriteFailed", "commandWriteFailed", "splitView",
   "splitViewError"}

\* the steps a handler in flight takes: the steps that leave the name of an
\* await or of a return in lastOp
HandlerStep == inFlight # <<>> /\ lastOp' \in Awaits \cup Returns

Next ==
  \/ Edit
  \/ UserSave
  \/ DebounceFire
  \/ ReenableSync
  \/ Toggle
  \/ markAlwaysShow
  \/ unmarkAlwaysShow
  \/ markPrivate
  \/ unmarkPrivate
  \/ togglePrivateComments
  \/ toggleSplitViewComments
  \/ SplitViewRead
  \/ Steps

Spec == Init /\ [][Next]_vars

(***************************************************************************)
(* The pure functions on bounded inputs: extractComments, stripComments,   *)
(* injectComments applied to every text of at most MaxPureLines lines      *)
(***************************************************************************)

MaxPureLines == 3
MaxPureFlags == 2

PureLines == { <<"x">>, <<"#", " ", "a">>, <<"x", " ", "#", " ", "c">>, <<>>,
               <<"/", "/", " ", "b">> }

PureExts == {"py", "js"}

PureFlagValues == {"none", "alwaysShow", "isPrivate"}

RECURSIVE TextsOfLen(_)
TextsOfLen(n) ==
  IF n = 0 THEN { <<>> }
  ELSE {Append(t, l) : t \in TextsOfLen(n - 1), l \in PureLines}

\* the lines around two occurrences of one code line: nothing, or one code
\* line (one of them indented)
AnchorContexts == { <<>>, << <<"y">> >>, << <<" ", "y">> >>, << <<"z">> >> }

\* texts with the code line x twice, each occurrence under a comment of its own
AnchorTexts ==
  {pre \o << <<"#", " ", "a">>, <<"x">> >> \o mid
       \o << <<"#", " ", "b">>, <<"x">> >> \o post :
     pre \in AnchorContexts, mid \in AnchorContexts, post \in AnchorContexts}

\* texts with a blank line inside a comment block and blank lines outside it
BlankTexts ==
  { << <<"#", " ", "a">>, <<>>, <<"#", " ", "a">>, <<>>, <<"x">> >>,
    << <<"x">>, <<>>, <<"#", " ", "a">>, <<>>, <<"#", " ", "b">>, <<"x">> >> }

PureTexts ==
  UNION {TextsOfLen(n) : n \in 1..MaxPureLines} \cup AnchorTexts \cup BlankTexts

FlagSeqs == [1..MaxPureFlags -> PureFlagValues]

\* the persisted set of a text: its extracted records, the first records
\* flagged as the flags say
Flagged(records, flags) ==
  [k \in 1..Len(records) |->
     IF k > Len(flags) \/ flags[k] = "none" THEN records[k]
     ELSE SetFlag(records[k], flags[k], TRUE)]

PureRecords == Flagged(extractComments(pure.text, pure.ext), pure.flags)

InitPure ==
  /\ doc \in InitDocs
  /\ dirty = FALSE
  /\ files = [shared |-> NoFile, private |-> NoFile]
  /\ isCommentedMap = "unset"
  /\ privateCommentsVisible = "unset"
  /\ justInjectedFromVCM = FALSE
  /\ vcmSyncEnabled = TRUE
  /\ liveSync = FALSE
  /\ writeTimeout = FALSE
  /\ reenableTimers = 0
  /\ edits = 0
  /\ commands = 0
  /\ lastOp = "init"
  /\ ran = NoTask
  /\ inFlight = InFlightIdle
  /\ liveDocs = <<>>
  /\ liveTimer = 0
  /\ pure \in [text : PureTexts, ext : PureExts, flags : FlagSeqs,
               keepPrivate : BOOLEAN, op : {"input"}, prev : { <<>> }, out : { <<>> },
               mode : {"none"}]

PureFrame ==
  UNCHANGED <<doc, dirty, files, isCommentedMap, privateCommentsVisible,
              justInjectedFromVCM, vcmSyncEnabled, liveSync, writeTimeout,
              reenableTimers, inFlight, liveDocs, liveTimer, edits, commands, lastOp,
              ran>>

\* stripComments(text, path, records, keepPrivate)
PureStrip ==
  /\ pure.op = "input"
  /\ pure' = [pure EXCEPT !.op = "strip",
                          !.out = stripComments(pure.text, pure.ext, PureRecords,
                                                pure.keepPrivate)]
  /\ PureFrame

\* stripComments applied to the result of a strip
PureStripAgain ==
  /\ pure.op = "strip"
  /\ pure' = [pure EXCEPT !.op = "stripAgain",
                          !.prev = pure.out,
                          !.out = stripComments(pure.out, pure.ext, PureRecords,
                                                pure.keepPrivate)]
  /\ PureFrame

\* injectComments(stripComments(text), extractComments(text))
PureRoundTrip ==
  /\ pure.op = "input"
  /\ pure' = [pure EXCEPT !.op = "roundTrip",
                          !.out = injectComments(
                                    stripComments(pure.text, pure.ext, <<>>, FALSE),
                                    extractComments(pure.text, pure.ext), TRUE)]
  /\ PureFrame

PureInjectInto(clean) ==
  pure' = [pure EXCEPT !.op = "inject",
                       !.prev = clean,
                       !.out = injectComments(clean, PureRecords, pure.keepPrivate)]

\* injectComments(cleanText, records, includePrivate): the clean text is the
\* stripped text, or the stripped text with one line removed
PureInject ==
  /\ pure.op = "input"
  /\ \E drop \in 0..Len(stripComments(pure.text, pure.ext, <<>>, FALSE)) :
       PureInjectInto(IF drop = 0 THEN stripComments(pure.text, pure.ext, <<>>, FALSE)
                      ELSE DeleteLine(stripComments(pure.text, pure.ext, <<>>, FALSE),
                                      drop))
  /\ PureFrame

\* hashLine(line, lineIndex) on two lines of the text
PureHash ==
  /\ pure.op = "input"
  /\ \E i \in 1..Len(pure.text), j \in 1..Len(pure.text) :
       pure' = [pure EXCEPT !.op = "hash",
                            !.prev = <<i, j>>,
                            !.out = <<hashLine(pure.text[i]), hashLine(pure.text[j])>>]
  /\ PureFrame

\* the line at position p without its comment: a pure-comment line
\* becomes an empty line, an inline comment is cut off
UncommentLine(text, ext, p) ==
  [text EXCEPT ![p] = stripComments(<<text[p]>>, ext, <<>>, FALSE)[1]]

PureDetectOn(current) ==
  pure' = [pure EXCEPT !.op = "detect",
                       !.prev = current,
                       !.mode = detectInitialMode(current, pure.ext,
                                                  [exists |-> TRUE,
                                                   comments |-> PureRecords])]

\* detectInitialMode(doc, vcmFileUri, vcmDir) with the records of the text
\* in the shared file; the document holds the text, the text with one of
\* its lines without its comment, or the text without any comment
PureDetect ==
  /\ pure.op = "input"
  /\ \/ PureDetectOn(pure.text)
     \/ PureDetectOn(stripComments(pure.text, pure.ext, <<>>, FALSE))
     \/ \E p \in 1..Len(pure.text) : PureDetectOn(UncommentLine(pure.text, pure.ext, p))
  /\ PureFrame

\* detectInitialMode(doc, vcmFileUri, vcmDir) when the shared file cannot be
\* read
PureDetectNoFile ==
  /\ pure.op = "input"
  /\ pure' = [pure EXCEPT !.op = "detectNoFile",
                          !.prev = pure.text,
                          !.mode = detectInitialMode(pure.text, pure.ext, NoFile)]
  /\ PureFrame

NextPure ==
  \/ PureDetect
  \/ PureDetectNoFile
  \/ PureStrip
  \/ PureStripAgain
  \/ PureRoundTrip
  \/ PureInject
  \/ PureHash

SpecPure == InitPure /\ [][NextPure]_vars

(***************************************************************************)
(* The pure functions on code lines with string literals                   *)
(***************************************************************************)

\* code lines: a string literal that holds a marker behind whitespace, alone
\* and with an inline comment behind the literal; a line with an inline
\* comment only; a line of code only
StringLines ==
  { <<"s", "\"", " ", "#", "\"">>,
    <<"s", "\"", " ", "#", "\"", " ", "#", " ", "c">>,
    <<"x", " ", "#", " ", "c">>,
    <<"x">> }

StringTexts ==
  {<<l>> : l \in StringLines} \cup {<<l, m>> : l \in StringLines, m \in StringLines}

InitString ==
  /\ doc \in InitDocs
  /\ dirty = FALSE
  /\ files = [shared |-> NoFile, private |-> NoFile]
  /\ isCommentedMap = "unset"
  /\ privateCommentsVisible = "unset"
  /\ justInjectedFromVCM = FALSE
  /\ vcmSyncEnabled = TRUE
  /\ liveSync = FALSE
  /\ writeTimeout = FALSE
  /\ reenableTimers = 0
  /\ edits = 0
  /\ commands = 0
  /\ lastOp = "init"
  /\ ran = NoTask
  /\ inFlight = InFlightIdle
  /\ liveDocs = <<>>
  /\ liveTimer = 0
  /\ pure \in [text : StringTexts, ext : PureExts, flags : FlagSeqs,
               keepPrivate : BOOLEAN, op : {"input"}, prev : { <<>> }, out : { <<>> },
               mode : {"none"}]

SpecString == InitString /\ [][NextPure]_vars

(***************************************************************************)
(* Several handlers in flight: a save started by a watcher while a toggle  *)
(* or markPrivate waits at an await, and the other way round               *)
(***************************************************************************)

\* the 800 ms timers that may be pending when a toggle command starts
MaxAsyncTimers == 2

\* the handlers that may be in flight at the same time
MaxAsyncInFlight == 2

\* the handlers of a run, commands and saves
MaxAsyncCommands == 2

AsyncLimits == Limits(MaxAsyncInFlight, MaxAsyncTimers, MaxAsyncCommands, TRUE)

\* saveWatcher: the user saves the document
SaveWatcherBegin == \E dirtyEvent \in BOOLEAN : UserSaveAt(AsyncLimits, dirtyEvent)

\* the debounce callback () => saveVCM(e.document)
DebounceBegin == writeTimeout /\ DebounceFireAt(AsyncLimits)

ToggleBegin == TimerFree(AsyncLimits) /\ ToggleAt(AsyncLimits)

MarkPrivateBegin ==
  \E selectedLine \in 0..(Len(doc) - 1) :
    MarkBegin(AsyncLimits, "markPrivate", selectedLine, "markPrivateBegin")

\* the user types a note at the top of the document
TypeAtTop == Typed(1, LNote) /\ Edited

NextAsync ==
  \/ TypeAtTop
  \/ SaveWatcherBegin
  \/ DebounceBegin
  \/ ToggleBegin
  \/ MarkPrivateBegin
  \/ ReenableSync
  \/ Steps

SpecAsync == Init /\ [][NextAsync]_vars

(***************************************************************************)
(* liveSync with several open documents: changeWatcher keeps one timer,    *)
(* let writeTimeout, for all of them                                       *)
(***************************************************************************)

NumLiveDocs == 2
MaxLiveEdits == 2

\* the saveVCM runs that may be in flight at the same time
MaxLiveInFlight == 2

\* an open document: its text, its .vcm files, its mode, and whether saveVCM
\* has run on the text as it is now
LiveDoc(text) ==
  [doc |-> text, files |-> [shared |-> NoFile, private |-> NoFile], mode |-> "unset",
   synced |-> TRUE]

InitLive ==
  /\ doc = <<>>
  /\ dirty = FALSE
  /\ files = [shared |-> NoFile, private |-> NoFile]
  /\ isCommentedMap = "unset"
  /\ privateCommentsVisible = "unset"
  /\ justInjectedFromVCM = FALSE
  /\ vcmSyncEnabled = TRUE
  /\ liveSync = TRUE
  /\ writeTimeout = FALSE
  /\ reenableTimers = 0
  /\ pure = PureIdle
  /\ inFlight = InFlightIdle
  /\ liveDocs \in [1..NumLiveDocs -> {LiveDoc(t) : t \in InitDocs}]
  /\ liveTimer = 0
  /\ edits = 0
  /\ commands = 0
  /\ lastOp = "init"
  /\ ran = NoTask

LiveFrame ==
  UNCHANGED <<doc, dirty, files, isCommentedMap, privateCommentsVisible,
              justInjectedFromVCM, vcmSyncEnabled, liveSync, writeTimeout,
              reenableTimers, pure, commands, ran>>

\* the state of document d as saveVCM(document d) sees it
LiveMach(d) ==
  [doc |-> liveDocs[d].doc, dirty |-> FALSE, files |-> liveDocs[d].files,
   mode |-> liveDocs[d].mode, pcv |-> "unset", just |-> FALSE, sync |-> TRUE,
   wt |-> FALSE, timers |-> 0]

\* the step of saveVCM behind the await it is suspended at
SaveStepOf(t, m) ==
  CASE t.pc = "readShared" -> ReadSharedStep(t, m)
    [] t.pc = "readPrivate" -> ReadPrivateStep(t, m)
    [] t.pc = "detect" -> DetectStep(t, m)
    [] t.pc = "stat" -> StatStep(t, m)
    [] t.pc = "writeShared" -> WriteSharedStep(t, m)
    [] OTHER -> WritePrivateStep(t, m)

\* changeWatcher: an edit of document d clears the timer and sets it for d
LiveEdit ==
  /\ edits < MaxLiveEdits
  /\ \E d \in 1..NumLiveDocs :
       /\ \/ \E p \in 1..(Len(liveDocs[d].doc) + 1), l \in TypedLines :
               /\ Len(liveDocs[d].doc) < MaxLines
               /\ liveDocs' = [liveDocs EXCEPT ![d].doc = InsertLine(@, p, l),
                                               ![d].synced = FALSE]
          \/ \E p \in 1..Len(liveDocs[d].doc) :
               /\ Len(liveDocs[d].doc) > 1
               /\ liveDocs' = [liveDocs EXCEPT ![d].doc = DeleteLine(@, p),
                                               ![d].synced = FALSE]
       /\ liveTimer' = IF vcmSyncEnabled THEN d ELSE liveTimer
  /\ edits' = edits + 1
  /\ lastOp' = "edit"
  /\ UNCHANGED inFlight
  /\ LiveFrame

\* the timer fires: saveVCM(e.document) for the document of the last edit,
\* up to its first await, whatever is in flight
LiveDebounceFire ==
  /\ liveTimer # 0
  /\ Len(inFlight) < MaxLiveInFlight
  /\ inFlight' = inFlight \o <<[CallSaveVCM(NewTask("save", LiveMach(liveTimer)),
                                LiveMach(liveTimer), "end").t EXCEPT !.d = liveTimer]>>
  /\ liveTimer' = 0
  /\ lastOp' = "saveBegin"
  /\ UNCHANGED <<liveDocs, edits>>
  /\ LiveFrame

\* saveVCM(document d) goes on behind its await, r the step it takes; at its
\* end the document is in sync when the text saveVCM read is the text as it
\* is now
LiveResume(i, r) ==
  /\ liveDocs' = [liveDocs EXCEPT
                    ![inFlight[i].d].files = r.m.files,
                    ![inFlight[i].d].mode = r.m.mode,
                    ![inFlight[i].d].synced =
                      @ \/ (r.t.pc = "end" /\ inFlight[i].svText = liveDocs[inFlight[i].d].doc)]
  /\ inFlight' = Alive([inFlight EXCEPT ![i] = r.t])
  /\ lastOp' = IF r.t.pc = "end" THEN r.t.op ELSE inFlight[i].pc
  /\ UNCHANGED <<liveTimer, edits>>
  /\ LiveFrame

LiveSaveStep ==
  \E i \in 1..Len(inFlight) :
    LiveResume(i, SaveStepOf(inFlight[i], LiveMach(inFlight[i].d)))

NextLive ==
  \/ LiveEdit
  \/ LiveDebounceFire
  \/ LiveSaveStep

\* the steps of NextLive that take the timer from set to unset are the steps
\* of LiveDebounceFire
TimerFires == liveTimer # 0 /\ liveTimer' = 0

\* a timer that is set and not cleared fires after its two seconds, and an
\* awaited file operation returns
SpecLive ==
  InitLive /\ [][NextLive]_vars /\ WF_liveTimer(TimerFires) /\ WF_lastOp(HandlerStep)

(***************************************************************************)
(* The commands of the private comments, three in a row: markPrivate,      *)
(* togglePrivateComments, unmarkPrivate, with the edits and the saves      *)
(***************************************************************************)

MaxPrivateCommands == 3

PrivateLimits == Limits(MaxInFlight, MaxTimers, MaxPrivateCommands, FALSE)

PrivateSave == \E dirtyEvent \in BOOLEAN : UserSaveAt(PrivateLimits, dirtyEvent)

PrivateDebounce == writeTimeout /\ DebounceFireAt(PrivateLimits)

PrivateMark ==
  \E selectedLine \in 0..(Len(doc) - 1) :
    MarkBegin(PrivateLimits, "markPrivate", selectedLine, "markPrivateBegin")

PrivateUnmark ==
  \E selectedLine \in 0..(Len(doc) - 1) :
    UnmarkBegin(PrivateLimits, "unmarkPrivate", selectedLine, "unmarkPrivateBegin")

PrivateToggle == TimerFree(PrivateLimits) /\ TogglePrivateAt(PrivateLimits)

NextPrivate ==
  \/ Edit
  \/ PrivateSave
  \/ PrivateDebounce
  \/ ReenableSync
  \/ PrivateMark
  \/ PrivateUnmark
  \/ PrivateToggle
  \/ ReadShared
  \/ ReadPrivate
  \/ DetectMode
  \/ StatShared
  \/ WriteShared
  \/ WritePrivate
  \/ ApplyEdit
  \/ SaveDocument

SpecPrivate == Init /\ [][NextPrivate]_vars

(***************************************************************************)
(* A write of a .vcm file fails: saveVCM has no handler around             *)
(* saveCommentsToVCM, and the toggle command none around saveVCM; the      *)
(* toggle's own write of the merged records is inside its try              *)
(***************************************************************************)

\* writeFile of saveCommentsToVCM rejects: the rejection leaves saveVCM and
\* the toggle that awaits it (no file written, no timer started); the mark
\* and unmark commands catch it and show a message.  writeFile of the toggle
\* rejects: the catch branch of the toggle runs.
WriteFailsStep(t, m) ==
  End(t, m, IF t.sub # "saveVCM" THEN "commandWriteFailed"
            ELSE IF t.kind = "toggle" THEN "toggleWriteFailed" ELSE "saveWriteFailed")

WriteFails ==
  \/ \E i \in Waiting("writeShared") :
       /\ Written(inFlight[i], files).shared.exists
       /\ Resume(i, WriteFailsStep(inFlight[i], Mach))
  \/ \E i \in Waiting("writePrivate") :
       /\ Written(inFlight[i], files).private.exists
       /\ Resume(i, WriteFailsStep(inFlight[i], Mach))
  \/ \E i \in Waiting("toggleWrite") : Resume(i, ToggleCatch(inFlight[i], Mach))

\* the commands of a run with a failing write
MaxFailCommands == 2

FailLimits == Limits(MaxInFlight, MaxTimers, MaxFailCommands, FALSE)

ToggleOnce == TimerFree(FailLimits) /\ ToggleAt(FailLimits)

TogglePrivateOnce == TimerFree(FailLimits) /\ TogglePrivateAt(FailLimits)

MarkPrivateOnce ==
  \E selectedLine \in 0..(Len(doc) - 1) :
    MarkBegin(FailLimits, "markPrivate", selectedLine, "markPrivateBegin")

NextFail ==
  \/ Edit
  \/ ToggleOnce
  \/ TogglePrivateOnce
  \/ MarkPrivateOnce
  \/ ReenableSync
  \/ Steps
  \/ WriteFails

\* an awaited operation returns, with its result or with its failure, and a
\* timer that was started fires after its 800 ms
SpecFail ==
  Init /\ [][NextFail]_vars /\ WF_lastOp(HandlerStep) /\ WF_reenableTimers(ReenableSync)

(***************************************************************************)
(* Properties: vocabulary                                                  *)
(***************************************************************************)

\* the texts a record carries: payload and clean-mode payload
RecordTexts(c) ==
  {c.block[k].text : k \in 1..Len(c.block)}
    \cup {c.block_cleanMode[k].text : k \in 1..Len(c.block_cleanMode)}
    \cup (IF c.text # <<>> THEN {c.text} ELSE {})
    \cup (IF c.text_cleanMode # <<>> THEN {c.text_cleanMode} ELSE {})

\* the texts carried by a sequence of records
SetTexts(s) == UNION {RecordTexts(s[k]) : k \in 1..Len(s)}

\* the comment texts of a document
DocTexts(lines) == SetTexts(extractComments(lines, Ext))

\* the payloads of a sequence of records, with their type and anchor
Payloads(s) ==
  {<<s[k].type, s[k].anchor, s[k].text, BlockTexts(s[k].block)>> : k \in 1..Len(s)}

\* no pure-comment line occurs twice in the document
NoDuplicateComment(lines) ==
  \A i, j \in 1..Len(lines) :
    (i < j /\ isComment(lines[i], getCommentMarkersForFile(Ext))) => lines[i] # lines[j]

\* the positions of the block records anchored to LRet
RetRecs(s) == {k \in 1..Len(s) : Key(s[k]) = <<"block", hashLine(LRet)>>}

\* the first block record anchored to LRet
RetRec(s) == s[Min(RetRecs(s))]

\* LNote stands directly above LRet
NoteAboveRet(lines) ==
  \E p \in 1..(Len(lines) - 1) : lines[p] = LNote /\ lines[p + 1] = LRet

\* the record anchored to LRet holds LNote in its clean-mode payload
NoteStored(s) ==
  \E j \in 1..Len(RetRec(s).block_cleanMode) : RetRec(s).block_cleanMode[j].text = LNote

\* the record anchored to LRet holds LExplain in its payload
ExplainStored(s) ==
  \E j \in 1..Len(RetRec(s).block) : RetRec(s).block[j].text = LExplain

\* the shared set has a record anchored to LRet that is not alwaysShow, and
\* nothing is private
PlainRetRecord(fs) ==
  /\ RetRecs(fs.shared.comments) # {}
  /\ ~RetRec(fs.shared.comments).alwaysShow
  /\ fs.private.comments = <<>>

\* LNote, then LExplain, then LRet, with only comment lines in between
NoteThenExplainShown(lines) ==
  \E i, j, k \in 1..Len(lines) :
    /\ i < j /\ j < k
    /\ lines[i] = LNote /\ lines[j] = LExplain /\ lines[k] = LRet
    /\ \A m \in i..(k - 1) : isComment(lines[m], getCommentMarkersForFile(Ext))

\* no two code lines of the text share their trimmed content
DistinctCodeLines(t, ext) ==
  \A i, j \in 1..Len(t) :
    (i < j /\ IsCodeLine(t[i], getCommentMarkersForFile(ext))
           /\ IsCodeLine(t[j], getCommentMarkersForFile(ext))) => Trim(t[i]) # Trim(t[j])

\* every pure-comment line of the text has a code line somewhere below it
CommentsAboveCode(t, ext) ==
  \A k \in 1..Len(t) :
    isComment(t[k], getCommentMarkersForFile(ext))
      => \E j \in (k + 1)..Len(t) : IsCodeLine(t[j], getCommentMarkersForFile(ext))

\* the line ends with s
EndsWith(line, s) ==
  Len(s) <= Len(line) /\ SubSeq(line, Len(line) - Len(s) + 1, Len(line)) = s

\* the payload texts of a record
PayloadTexts(c) ==
  IF c.type = "block" THEN {c.block[j].text : j \in 1..Len(c.block)} ELSE {c.text}

\* some comment of the record is in the text
SomePresent(c, t) ==
  IF c.type = "block"
  THEN \E j \in 1..Len(c.block), k \in 1..Len(t) : t[k] = c.block[j].text
  ELSE \E k \in 1..Len(t) : EndsWith(t[k], c.text)

\* every comment of the record is in the text
AllPresent(c, t) ==
  IF c.type = "block"
  THEN \A j \in 1..Len(c.block) : \E k \in 1..Len(t) : t[k] = c.block[j].text
  ELSE \E k \in 1..Len(t) : EndsWith(t[k], c.text)

\* the record shares no payload text with another record of the set
OwnTexts(s, k) ==
  \A j \in 1..Len(s) : j # k => PayloadTexts(s[j]) \cap PayloadTexts(s[k]) = {}

\* the positions of the code line x in a text
XLines(t) == {p \in 1..Len(t) : t[p] = <<"x">>}

\* the context hashes of the record match occurrence p of x better than any
\* other occurrence
Prefers(clean, c, p) ==
  /\ p \in XLines(clean)
  /\ \A q \in XLines(clean) \ {p} :
       ContextScore(clean, c, q) < ContextScore(clean, c, p)

\* the clean text with block c1 directly above line p1 and block c2 directly
\* above line p2, p1 < p2
WithBlocksAbove(clean, c1, p1, c2, p2) ==
  SubSeq(clean, 1, p1 - 1) \o BlockTexts(c1.block) \o SubSeq(clean, p1, p2 - 1)
    \o BlockTexts(c2.block) \o SubSeq(clean, p2, Len(clean))

\* an injection of the two block records of a text with two occurrences of x
TwoBlocksCase ==
  /\ pure.op = "inject" /\ pure.text \in AnchorTexts /\ pure.ext = "py"
  /\ \A k \in 1..MaxPureFlags : pure.flags[k] = "none"

\* the line between its first and its last character that is no whitespace
Core(line) ==
  LET S == {k \in 1..Len(line) : ~IsWs(line[k])}
  IN IF S = {} THEN <<>>
     ELSE SubSeq(line, Min(S), CHOOSE x \in S : \A y \in S : y <= x)

\* the anchor of the record is the hash of some line of the clean text
Resolvable(c, clean) ==
  \E k \in 1..Len(clean) : ~IsBlank(clean[k]) /\ hashLine(clean[k]) = c.anchor

\* the record is one injectComments must not show
Hidden(c, includePrivate) == c.alwaysShow \/ (c.isPrivate /\ ~includePrivate)

\* the comment lines of a record: its payload texts that are not blank
CommentTexts(c) == {x \in PayloadTexts(c) : ~IsBlank(x)}

\* the payload text x of record c stands in the text: as a line of its own
\* for a block, at the end of a line for an inline comment
Emitted(c, x, t) ==
  IF c.type = "block" THEN \E k \in 1..Len(t) : t[k] = x
  ELSE \E k \in 1..Len(t) : EndsWith(t[k], x)

\* the records of s whose anchor resolves in the clean text
ResolvableOnly(s, clean) == SelectSeq(s, LAMBDA c : Resolvable(c, clean))

\* the blank line at position p stands between two comment lines with
\* nothing but comment lines and blank lines between them
InteriorBlank(t, p, markers) ==
  /\ IsBlank(t[p])
  /\ \E i \in 1..(p - 1), j \in (p + 1)..Len(t) :
       /\ isComment(t[i], markers) /\ isComment(t[j], markers)
       /\ \A m \in i..j : isComment(t[m], markers) \/ IsBlank(t[m])

\* the positions that are neither a comment line nor a blank line inside a
\* comment block, ascending
KeptPositions(t, markers) ==
  SelectIdx(Len(t), {p \in 1..Len(t) : ~isComment(t[p], markers)
                                        /\ ~InteriorBlank(t, p, markers)}, 1)

\* a strip with no record to keep
AllStripped ==
  pure.op = "strip" /\ \A k \in 1..MaxPureFlags : pure.flags[k] = "none"

\* out has a line for each kept position, blank where the text is blank
\* (the empty output is one empty line)
SameBlanks(out, t, kept) ==
  IF kept = <<>> THEN out = << <<>> >>
  ELSE /\ Len(out) = Len(kept)
       /\ \A k \in 1..Len(kept) : IsBlank(out[k]) <=> IsBlank(t[kept[k]])

\* the anchors of the records stripComments keeps
KeptAnchors(recs, keepPrivate) ==
  {recs[k].anchor : k \in {j \in 1..Len(recs) :
                             recs[j].alwaysShow \/ (recs[j].isPrivate /\ keepPrivate)}}

\* position p belongs to a block of the text whose anchor is not kept
InStrippedBlock(t, ext, p, kept) ==
  \E k \in 1..Len(extractComments(t, ext)) :
    /\ extractComments(t, ext)[k].type = "block"
    /\ extractComments(t, ext)[k].anchor \notin kept
    /\ \E j \in 1..Len(extractComments(t, ext)[k].block) :
         extractComments(t, ext)[k].block[j].originalLine = p - 1

\* the positions of the blank lines of a text
Blanks(t) == {p \in 1..Len(t) : IsBlank(t[p])}

\* the blank lines of the text that stand inside a stripped block
BlanksGone(t, ext, kept) ==
  {p \in Blanks(t) : InteriorBlank(t, p, getCommentMarkersForFile(ext))
                       /\ InStrippedBlock(t, ext, p, kept)}

\* the records detectInitialMode is said to sample: the first
\* MaxDetectSample records that are not alwaysShow
Sample(recs) ==
  SubSeq(SelectSeq(recs, LAMBDA c : ~c.alwaysShow), 1,
         IF Len(SelectSeq(recs, LAMBDA c : ~c.alwaysShow)) < MaxDetectSample
         THEN Len(SelectSeq(recs, LAMBDA c : ~c.alwaysShow)) ELSE MaxDetectSample)

\* the stored original line of a record, and the payload text stored for it
StoredLine(c) == IF c.type = "inline" THEN c.originalLine ELSE c.block[1].originalLine

FirstText(c) == IF c.type = "inline" THEN c.text ELSE c.block[1].text

\* the payload text of the record is on its stored line of the text
PresentAtLine(c, cur) ==
  StoredLine(c) < Len(cur) /\ Includes(cur[StoredLine(c) + 1], FirstText(c))

\* the number of records whose payload text is not on its stored line
Fails(recs, cur) == Cardinality({k \in 1..Len(recs) : ~PresentAtLine(recs[k], cur)})

\* the handler of the last step returned with it, in one of the ways ops, and
\* no step but its own ran between its start and its return: ran.pre is the
\* state it started in, the state is the one it left
Ran(ops) == lastOp \in ops /\ ran.pc = "end" /\ ran.op = lastOp /\ ran.alone

\* the state saveVCM and the toggle work on, as the handler found it
PreSt ==
  [doc |-> ran.pre.doc, files |-> ran.pre.files, mode |-> ran.pre.mode,
   just |-> ran.pre.just]

\* A handler that runs from its start to its return with no other step in
\* between does what the composition of its parts does
SaveRunsAsSaveVCM == Ran({"save"}) => St = saveVCM(PreSt)

ToggleRunsAsToggleToClean ==
  (Ran({"toggleToClean"}) /\ ran.pre.mode = "commented")
    => St = ToggleToClean(PreSt, ran.pre.pcv = "visible", liveSync)

ToggleRunsAsToggleToCommented ==
  (Ran({"toggleToCommented", "toggleCreated", "toggleAbort"}) /\ ran.pre.mode = "clean")
    => St = ToggleToCommented(PreSt, ran.pre.pcv = "visible").st

(***************************************************************************)
(* Properties                                                              *)
(***************************************************************************)

\* C1: round trip: for every text in which no two code lines share their
\* trimmed content (and every comment line has a code line below it),
\* injectComments(stripComments(text), extractComments(text)) is the text
\* itself, blank lines included.
C1_RoundTrip ==
  (pure.op = "roundTrip" /\ DistinctCodeLines(pure.text, pure.ext)
     /\ CommentsAboveCode(pure.text, pure.ext))
    => pure.out = pure.text

\* C2: Clean-mode edit scenario: in Clean state with a persisted block record
\* anchored to LRet (not alwaysShow, nothing private), a save after LNote is
\* typed directly above LRet stores the note in that record's clean-mode
\* payload and leaves its block payload unchanged; the next toggle to
\* Commented shows the note, then the original comment, above LRet (each
\* handler run without another step in between).
C2_CleanEditScenario ==
  /\ (Ran({"save"}) /\ ran.pre.mode = "clean" /\ NoteAboveRet(ran.pre.doc)
        /\ PlainRetRecord(ran.pre.files))
       => /\ RetRecs(files.shared.comments) # {}
          /\ NoteStored(files.shared.comments)
          /\ RetRec(files.shared.comments).block
               = RetRec(ran.pre.files.shared.comments).block
  /\ (Ran({"toggleToCommented"}) /\ ran.pre.mode = "clean"
        /\ PlainRetRecord(ran.pre.files)
        /\ NoteStored(ran.pre.files.shared.comments)
        /\ ExplainStored(ran.pre.files.shared.comments))
       => NoteThenExplainShown(doc)

\* C3: no duplication on toggle: a Clean -> Commented toggle of a document
\* without a repeated comment line, run without another step in between,
\* yields a document in which every comment line appears once.
C3_NoDuplicationOnToggle ==
  (Ran({"toggleToCommented", "toggleCreated"}) /\ NoDuplicateComment(ran.pre.doc))
    => NoDuplicateComment(doc)

\* C4: no silent loss on hide: every comment text a Commented -> Clean toggle
\* (run without another step in between) removes from the document is in the
\* persisted set, shared or private, when the toggle completes.
C4_NoSilentLossOnHide ==
  Ran({"toggleToClean"})
    => (DocTexts(ran.pre.doc) \ DocTexts(doc))
         \subseteq (SetTexts(files.shared.comments) \cup SetTexts(files.private.comments))

\* C5: private isolation of storage: the shared partition file never holds a
\* record with isPrivate = true.
C5_SharedHoldsNoPrivate ==
  \A k \in 1..Len(files.shared.comments) : ~files.shared.comments[k].isPrivate

\* C5 witness: a save has written both partitions, each with a record
C5_Witness ==
  /\ lastOp = "save"
  /\ files.private.exists /\ Len(files.private.comments) > 0
  /\ files.shared.exists /\ Len(files.shared.comments) > 0

\* C6: stripComments with keepPrivate = false removes every comment of a
\* record marked isPrivate and not alwaysShow, and keeps the comments of the
\* alwaysShow records.
C6_StripRemovesPrivate ==
  (pure.op = "strip" /\ ~pure.keepPrivate)
    => /\ \A k \in 1..Len(PureRecords) :
            (PureRecords[k].isPrivate /\ ~PureRecords[k].alwaysShow
               /\ OwnTexts(PureRecords, k))
              => ~SomePresent(PureRecords[k], pure.out)
       /\ \A k \in 1..Len(PureRecords) :
            PureRecords[k].alwaysShow => AllPresent(PureRecords[k], pure.out)

\* C7: a save in Commented state (saveVCM run without another step in
\* between) makes the shared persisted set equal to the records extracted from
\* the current text (nothing private on either side of the save): a record
\* whose comment left the text is gone after the save.
C7_CommentedSaveEqualsExtraction ==
  (Ran({"save"}) /\ isCommentedMap = "commented"
     /\ ~ran.pre.files.private.exists /\ ~files.private.exists)
    => Payloads(files.shared.comments) = Payloads(extractComments(doc, Ext))

\* C8: a save in Clean state (saveVCM run without another step in between)
\* never changes the payload (text, block) of a previously persisted record:
\* the shared records keep their place and payload, new records are appended,
\* and every private record keeps its payload.
C8_CleanSaveKeepsPayload ==
  (Ran({"save"}) /\ isCommentedMap = "clean")
    => /\ Len(files.shared.comments) >= Len(ran.pre.files.shared.comments)
       /\ \A k \in 1..Len(ran.pre.files.shared.comments) :
            /\ files.shared.comments[k].text = ran.pre.files.shared.comments[k].text
            /\ files.shared.comments[k].block = ran.pre.files.shared.comments[k].block
       /\ \A k \in 1..Len(ran.pre.files.private.comments) :
            \E j \in 1..Len(files.private.comments) :
              /\ files.private.comments[j].text = ran.pre.files.private.comments[k].text
              /\ files.private.comments[j].block = ran.pre.files.private.comments[k].block

\* C9: in Clean state with the private comments visible, a save (saveVCM run
\* without another step in between) adds no text of a private record to the
\* shared set, neither as a payload nor as a clean-mode payload.
C9_CleanSaveKeepsPrivateOut ==
  (Ran({"save"}) /\ ran.pre.mode = "clean" /\ isCommentedMap = "clean"
     /\ ran.pre.pcv = "visible")
    => (SetTexts(files.shared.comments) \ SetTexts(ran.pre.files.shared.comments))
         \cap SetTexts(files.private.comments) = {}

\* C10: stripComments is idempotent: stripping the result of a strip again,
\* with the same records and keepPrivate, returns the same text.
C10_StripIdempotent == pure.op = "stripAgain" => pure.out = pure.prev

\* C11: reconciliation is idempotent: a saveVCM that starts right behind the
\* return of a saveVCM of the same text (both run without another step in
\* between, the mode left as it is) leaves both partitions as the first one
\* left them.
C11_SaveTwiceSameSet ==
  (Ran({"save"}) /\ ran.again /\ isCommentedMap = ran.pre.mode)
    => files = ran.pre.files

\* C12: anchor disambiguation: when the clean text holds the code line x
\* twice and the two block records anchored to it have context hashes that
\* match different occurrences, injectComments puts each block directly above
\* the occurrence its context matches, never both above the same one.
C12_AnchorDisambiguation ==
  TwoBlocksCase =>
    \A p1, p2 \in XLines(pure.prev) : \A a, b \in 1..2 :
      (p1 < p2 /\ a # b /\ Prefers(pure.prev, PureRecords[a], p1)
         /\ Prefers(pure.prev, PureRecords[b], p2))
        => pure.out = WithBlocksAbove(pure.prev, PureRecords[a], p1,
                                      PureRecords[b], p2)

C12_Witness ==
  /\ TwoBlocksCase
  /\ \E p1, p2 \in XLines(pure.prev) :
       /\ p1 < p2
       /\ Prefers(pure.prev, PureRecords[1], p1)
       /\ Prefers(pure.prev, PureRecords[2], p2)
       /\ pure.out = WithBlocksAbove(pure.prev, PureRecords[1], p1,
                                     PureRecords[2], p2)

\* the handler has read the persisted set and not yet written it
InReadWrite(t) ==
  \/ t.sub = "saveVCM" /\ t.pc \in {"detect", "stat", "writeShared", "writePrivate"}
  \/ t.pc = "toggleWrite"

\* C13: mutual exclusion: a toggle and a watcher-triggered saveVCM of the
\* same document never overlap: never are both between their own read of the
\* persisted set and their own write of it.
C13_NoOverlap ==
  ~\E i, j \in 1..Len(inFlight) :
     /\ inFlight[i].kind = "save" /\ InReadWrite(inFlight[i])
     /\ inFlight[j].kind = "toggle" /\ InReadWrite(inFlight[j])

\* C14: with liveSync on, once the edits stop, saveVCM eventually has run on
\* the latest text of every document that was edited, also when documents
\* were edited within one debounce window.
C14_EditedDocsSaved ==
  <>[](\A d \in 1..Len(liveDocs) : liveDocs[d].synced)

\* C15: a toggle to Commented that finds no persisted set, neither at its
\* first read nor after its recovery save, ends with the error message and
\* applies no edit: the read behind the recovery save is the last step of the
\* command, the text is as it was, the document is not saved, and the command
\* returns with the sync enabled and no timer started.
C15_AbortAppliesNoEdit ==
  [][(lastOp' \in {"toggleReadBack", "toggleAbort"} /\ ~files.shared.exists)
       => (/\ lastOp' = "toggleAbort"
           /\ ran'.kind = "toggle" /\ ran'.pc = "end" /\ ran'.edit = NoEdit
           /\ doc' = doc /\ dirty' = dirty
           /\ vcmSyncEnabled' /\ reenableTimers' = reenableTimers)]_vars

C15_Witness ==
  /\ lastOp = "toggleAbort" /\ ran.kind = "toggle" /\ ran.edit = NoEdit
  /\ ~files.shared.exists /\ dirty /\ vcmSyncEnabled

\* C16: a missing persisted set is never fatal: a toggle to Commented that
\* finds no shared file extracts the comments of the text, persists them and
\* ends in Commented state without an error (the command run without another
\* step in between).
C16_NoPersistedSetRecovers ==
  (Ran({"toggleToCommented", "toggleCreated", "toggleAbort"})
     /\ ~ran.pre.files.shared.exists)
    => (lastOp = "toggleCreated" /\ files.shared.exists
          /\ isCommentedMap = "commented")

\* C17: the fingerprint of a line depends on its trimmed content only: two
\* lines get the same fingerprint exactly when they are equal up to leading
\* and trailing whitespace, wherever they stand in the text (the digest is
\* taken to be free of collisions).
C17_HashOfTrimmedContent ==
  pure.op = "hash"
    => (pure.out[1] = pure.out[2]
          <=> Core(pure.text[pure.prev[1]]) = Core(pure.text[pure.prev[2]]))

C17_Witness ==
  /\ pure.op = "hash"
  /\ pure.prev[1] # pure.prev[2]
  /\ pure.text[pure.prev[1]] # pure.text[pure.prev[2]]
  /\ Core(pure.text[pure.prev[1]]) = Core(pure.text[pure.prev[2]])
  /\ pure.out[1] = pure.out[2]

\* the lines of the text t that carry the payload text x the way a record of
\* the type of c is written: a line of its own for a block record, the end of
\* a code line for an inline record
EmittedAt(c, x, t) ==
  {k \in 1..Len(t) : IF c.type = "block" THEN t[k] = x ELSE EndsWith(t[k], x)}

\* the records of s of the type of c that carry the payload text x, are not
\* hidden and have an anchor that resolves in the clean text
VisibleCarriers(s, c, x, clean, includePrivate) ==
  {j \in 1..Len(s) : /\ s[j].type = c.type
                     /\ x \in PayloadTexts(s[j])
                     /\ ~Hidden(s[j], includePrivate)
                     /\ Resolvable(s[j], clean)}

\* C18: the visibility filter of injectComments: no comment of an alwaysShow
\* record is emitted, none of a private record unless includePrivate is set
\* (for records that share no payload text with another record), and every
\* other record whose anchor resolves is emitted: each of its payload texts
\* stands in the output at least once for every such record that carries it.
C18_InjectVisibility ==
  pure.op = "inject" =>
    \A k \in 1..Len(PureRecords) :
      /\ (OwnTexts(PureRecords, k) /\ Hidden(PureRecords[k], pure.keepPrivate))
           => \A x \in CommentTexts(PureRecords[k]) :
                 ~Emitted(PureRecords[k], x, pure.out)
      /\ (~Hidden(PureRecords[k], pure.keepPrivate)
             /\ Resolvable(PureRecords[k], pure.prev))
           => \A x \in PayloadTexts(PureRecords[k]) :
                 Cardinality(EmittedAt(PureRecords[k], x, pure.out))
                   >= Cardinality(VisibleCarriers(PureRecords, PureRecords[k], x,
                                                  pure.prev, pure.keepPrivate))

\* C19: a record whose anchor is the hash of no line of the clean text is
\* dropped without an error: the output of injectComments is the output of
\* injecting the other records only.
C19_AnchorNotFoundDropped ==
  pure.op = "inject"
    => pure.out = injectComments(pure.prev, ResolvableOnly(PureRecords, pure.prev),
                                 pure.keepPrivate)

C19_Witness ==
  /\ pure.op = "inject"
  /\ \E i, j \in 1..Len(PureRecords) :
       /\ ~Hidden(PureRecords[i], pure.keepPrivate)
       /\ ~Resolvable(PureRecords[i], pure.prev)
       /\ ~Hidden(PureRecords[j], pure.keepPrivate)
       /\ Resolvable(PureRecords[j], pure.prev)
       /\ \A x \in PayloadTexts(PureRecords[j]) : Emitted(PureRecords[j], x, pure.out)
  /\ pure.out = injectComments(pure.prev, ResolvableOnly(PureRecords, pure.prev),
                               pure.keepPrivate)

\* C20: stripComments removes the blank lines that stand between the comment
\* lines of a block it strips and keeps every other blank line: with no
\* record to keep, the output has one line for each line that is neither a
\* comment nor a blank inside a block, blank exactly where the text is; with
\* records to keep, the blank lines that go are those inside stripped blocks.
C20_StripBlankLines ==
  /\ AllStripped
       => SameBlanks(pure.out, pure.text,
                     KeptPositions(pure.text, getCommentMarkersForFile(pure.ext)))
  /\ pure.op = "strip"
       => \/ Cardinality(Blanks(pure.out))
              = Cardinality(Blanks(pure.text))
                - Cardinality(BlanksGone(pure.text, pure.ext,
                                         KeptAnchors(PureRecords, pure.keepPrivate)))
          \/ pure.out = << <<>> >>

C20_Witness ==
  /\ AllStripped
  /\ pure.text \in BlankTexts
  /\ \E p, q \in Blanks(pure.text) :
       /\ InteriorBlank(pure.text, p, getCommentMarkersForFile(pure.ext))
       /\ ~InteriorBlank(pure.text, q, getCommentMarkersForFile(pure.ext))
  /\ Cardinality(Blanks(pure.out)) = Cardinality(Blanks(pure.text)) - 1

\* C21: always-visible comments survive hiding: for either value of
\* keepPrivate, stripComments keeps every comment line of a block record
\* flagged alwaysShow and the inline comment of every inline record flagged
\* alwaysShow.
C21_AlwaysShowSurvivesStrip ==
  pure.op = "strip" =>
    \A k \in 1..Len(PureRecords) :
      PureRecords[k].alwaysShow
        => \A x \in PayloadTexts(PureRecords[k]) :
              Emitted(PureRecords[k], x, pure.out)

C21_Witness ==
  /\ pure.op = "strip"
  /\ pure.out # pure.text
  /\ \E i \in 1..Len(PureRecords) :
       /\ PureRecords[i].alwaysShow /\ PureRecords[i].type = "inline"
       /\ Emitted(PureRecords[i], PureRecords[i].text, pure.out)

\* C22: with a persisted set (holding no private record), detectInitialMode
\* checks the sampled records at their stored lines and answers Clean
\* exactly when more than half of the checks fail, Commented otherwise.
C22_DetectByMajority ==
  (pure.op = "detect" /\ Sample(PureRecords) # <<>>
     /\ \A k \in 1..Len(PureRecords) : ~PureRecords[k].isPrivate)
    => pure.mode = IF 2 * Fails(Sample(PureRecords), pure.prev)
                        > Len(Sample(PureRecords))
                    THEN "clean" ELSE "commented"

\* C23: without a persisted set the detected mode is Commented exactly when
\* the text holds a comment of the file type, be it a pure-comment line or
\* an inline comment after code.
C23_DetectWithoutSet ==
  pure.op = "detectNoFile"
    => (pure.mode = "commented" <=> extractComments(pure.prev, pure.ext) # <<>>)

\* the previous records a re-extracted record corresponds to: those with its
\* (type, anchor), or, when there is none, those with its payload text
PrevOf(c, prev) ==
  LET byKey == {k \in 1..Len(prev) : Key(prev[k]) = Key(c)}
  IN IF byKey # {} THEN byKey
     ELSE {k \in 1..Len(prev) : TextKey(prev[k]) = TextKey(c)}

\* the persisted records that stand for the re-extracted record c
SavedOf(c, saved) == {k \in 1..Len(saved) : FullKey(saved[k]) = FullKey(c)}

\* C24: a save in Commented state (saveVCM run without another step in
\* between) gives a re-extracted record the isPrivate or alwaysShow flag only
\* when a previous record it corresponds to, by (type, anchor) or, with no
\* such record, by payload text, had that flag.
C24_FlagsCarriedByKeyThenText ==
  (Ran({"save"}) /\ isCommentedMap = "commented")
    => LET cur == extractComments(ran.pre.doc, Ext)
           prev == loadAllComments(ran.pre.files)
           saved == loadAllComments(files)
       IN \A j \in 1..Len(cur) : \A r \in SavedOf(cur[j], saved) :
            /\ saved[r].isPrivate
                 => \E p \in PrevOf(cur[j], prev) : prev[p].isPrivate
            /\ saved[r].alwaysShow
                 => \E p \in PrevOf(cur[j], prev) : prev[p].alwaysShow

\* the record a Clean -> Commented toggle makes of the shared record r
MergedRecord(r, m) ==
  IF r.type = "inline" /\ r.text_cleanMode # <<>>
  THEN /\ m.text = r.text_cleanMode \o r.text
       /\ m.text_cleanMode = <<>>
       /\ [m EXCEPT !.text = r.text, !.text_cleanMode = r.text_cleanMode] = r
  ELSE IF r.type = "block" /\ r.block_cleanMode # <<>>
  THEN /\ m.block = r.block_cleanMode \o r.block
       /\ m.block_cleanMode = <<>>
       /\ [m EXCEPT !.block = r.block, !.block_cleanMode = r.block_cleanMode] = r
  ELSE m = r

\* C25: a Clean -> Commented toggle over an existing shared file prepends
\* each record's text_cleanMode to its payload and nulls it, leaves the other
\* records as they are, writes that set to the shared file and injects it:
\* the step behind the read holds the merged set of the file as read and the
\* text injected with it, the step behind the write has written that set and
\* hands that text to applyEdit, and a run without another step in between
\* ends with the text injected.
C25_ToggleMergesCleanMode ==
  [][/\ \A i \in 1..Len(inFlight) :
          (/\ inFlight[i].pc = "toggleRead" /\ i <= Len(inFlight')
           /\ inFlight'[i].pc = "toggleWrite")
            => /\ inFlight'[i].rdS = files.shared
               /\ Len(inFlight'[i].out) = Len(files.shared.comments)
               /\ \A k \in 1..Len(files.shared.comments) :
                    MergedRecord(files.shared.comments[k], inFlight'[i].out[k])
               /\ inFlight'[i].newText
                    = injectComments(inFlight[i].text, inFlight'[i].out,
                                     privateCommentsVisible = "visible")
     /\ \A i \in 1..Len(inFlight) :
          (/\ inFlight[i].pc = "toggleWrite" /\ i <= Len(inFlight')
           /\ inFlight'[i].pc = "applyEdit")
            => /\ files'.shared = [exists |-> TRUE, comments |-> inFlight[i].out]
               /\ inFlight'[i].edit = ReplaceAll(doc, inFlight[i].newText)
     /\ (lastOp' = "toggleToCommented" /\ ran'.pc = "end" /\ ran'.alone)
          => /\ files'.shared.comments = ran'.out
             /\ doc' = injectComments(ran'.pre.doc, ran'.out,
                                      ran'.pre.pcv = "visible")]_vars

\* a toggle has merged a comment typed in Clean state above the line r with
\* the hidden block of that line: both payload layers in one record
C25_Witness ==
  /\ lastOp = "toggleToCommented"
  /\ \E k \in 1..Len(files.shared.comments) :
       LET c == files.shared.comments[k]
       IN /\ c.type = "block" /\ Len(c.block) = 2
          /\ c.block[1].originalLine = c.block[2].originalLine
          /\ c.block_cleanMode = <<>>
          /\ \E i, j \in 1..Len(doc) :
               i < j /\ doc[i] = c.block[1].text /\ doc[j] = c.block[2].text

\* C26: after a save in Clean state (saveVCM run without another step in
\* between), every record of the shared file whose (type, anchor) no comment
\* extracted from the text has is a record the file held before, with that
\* payload and with text_cleanMode = null.
C26_CleanSaveClearsDeleted ==
  (Ran({"save"}) /\ isCommentedMap = "clean")
    => LET cur == extractComments(ran.pre.doc, Ext)
           prev == ran.pre.files.shared.comments
           saved == files.shared.comments
       IN \A r \in 1..Len(saved) :
            (\A j \in 1..Len(cur) : Key(cur[j]) # Key(saved[r]))
              => /\ saved[r].text_cleanMode = <<>>
                 /\ saved[r].block_cleanMode = <<>>
                 /\ \E p \in 1..Len(prev) :
                      [prev[p] EXCEPT !.text_cleanMode = <<>>,
                                      !.block_cleanMode = <<>>] = saved[r]

\* the comment c stands on the 0-based line sel
Under(c, sel) ==
  IF c.type = "inline" THEN c.originalLine = sel
  ELSE \E b \in 1..Len(c.block) : c.block[b].originalLine = sel

\* among the records of prev that share the anchor of the comment c under the
\* cursor, k is the one at the selected line or, with none there, one of the
\* best context score
MarkTarget(prev, k, c, sel) ==
  LET cand == {i \in 1..Len(prev) : prev[i].anchor = c.anchor}
  IN /\ k \in cand
     /\ IF \E i \in cand : Under(prev[i], sel) THEN Under(prev[k], sel)
        ELSE \A i \in cand :
               ContextMatchScore(prev[k], c) >= ContextMatchScore(prev[i], c)

\* the persisted set next is prev with the flag set on the record of the
\* comment on line sel and nothing else changed, or, with no persisted
\* record, the one extracted comment of line sel, flagged
MarkedOnly(prev, next, cur, sel, flag) ==
  \E j \in 1..Len(cur) :
    /\ Under(cur[j], sel)
    /\ IF prev = <<>> THEN next = <<SetFlag(cur[j], flag, TRUE)>>
       ELSE \E k \in 1..Len(prev) :
              /\ MarkTarget(prev, k, cur[j], sel)
              /\ Len(next) = Len(prev)
              /\ SeqToSet(next) = (SeqToSet(prev) \ {prev[k]})
                                    \cup {SetFlag(prev[k], flag, TRUE)}

\* C27: a markAlwaysShow or markPrivate run on the line sel (one that ends
\* with the write of the set, without hiding the comment, and with no other
\* step in between) sets the flag on the one persisted record of the comment
\* on that line and changes no other record; with no persisted record the set
\* becomes that one comment.
C27_MarkSetsOneFlag ==
  /\ Ran({"markAlwaysShow"})
       => MarkedOnly(loadAllComments(ran.pre.files), loadAllComments(files),
                     extractComments(ran.pre.doc, Ext), ran.sel, "alwaysShow")
  /\ Ran({"markPrivate"})
       => MarkedOnly(loadAllComments(ran.pre.files), loadAllComments(files),
                     extractComments(ran.pre.doc, Ext), ran.sel, "isPrivate")

\* the clean text with the blocks c1 and c2, in this order, directly above
\* line p
WithBothAbove(clean, c1, c2, p) ==
  SubSeq(clean, 1, p - 1) \o BlockTexts(c1.block) \o BlockTexts(c2.block)
    \o SubSeq(clean, p, Len(clean))

\* C28: the two block records anchored to x: when the clean text holds x at
\* least twice, injectComments puts the blocks above two different
\* occurrences; when it holds x once, both blocks stand above that line.
C28_SharedAnchorPlacement ==
  TwoBlocksCase =>
    /\ Cardinality(XLines(pure.prev)) >= 2
         => \E p1, p2 \in XLines(pure.prev) : \E a, b \in 1..2 :
              /\ p1 < p2 /\ a # b
              /\ pure.out = WithBlocksAbove(pure.prev, PureRecords[a], p1,
                                            PureRecords[b], p2)
    /\ Cardinality(XLines(pure.prev)) = 1
         => \E p \in XLines(pure.prev) : \E a, b \in 1..2 :
              /\ a # b
              /\ pure.out = WithBothAbove(pure.prev, PureRecords[a], PureRecords[b], p)

\* both blocks were injected above the one occurrence of x that is left
C28_Witness ==
  /\ TwoBlocksCase
  /\ Cardinality(XLines(pure.prev)) = 1
  /\ \E p \in XLines(pure.prev) :
       pure.out = WithBothAbove(pure.prev, PureRecords[1], PureRecords[2], p)
  /\ Len(pure.out) = Len(pure.prev) + 2

\* the fingerprint of the code of a line: of the part before its inline
\* comment when it has one
CodeHash(line, markers) ==
  IF InlineMatch(line, markers) > 1
  THEN hashLine(TrimEnd(SubSeq(line, 1, InlineMatch(line, markers) - 1)))
  ELSE hashLine(line)

\* the positions of the code lines of t with the code of line t[p]
Occurrences(t, p, markers) ==
  {q \in 1..Len(t) : IsCodeLine(t[q], markers)
                       /\ CodeHash(t[q], markers) = CodeHash(t[p], markers)}

\* line p of t is a duplicated code line with a comment line directly above
\* it and an inline comment behind its code
BlockAndInlineAt(t, p, markers) ==
  /\ p > 1 /\ isComment(t[p - 1], markers)
  /\ IsCodeLine(t[p], markers) /\ InlineMatch(t[p], markers) > 1
  /\ Cardinality(Occurrences(t, p, markers)) >= 2

\* out shows line p of t, with the comment line above it, on the same
\* occurrence of its code
RestoredAt(t, p, out, markers) ==
  \E q \in 2..Len(out) :
    /\ out[q] = t[p] /\ out[q - 1] = t[p - 1]
    /\ Cardinality({i \in Occurrences(out, q, markers) : i < q})
         = Cardinality({i \in Occurrences(t, p, markers) : i < p})

\* C29: a block comment and an inline comment extracted from the same
\* occurrence of a duplicated code line are both back on that occurrence
\* when the extracted records are injected into the stripped text.
C29_BlockAndInlineSameOccurrence ==
  (/\ pure.op = "inject"
   /\ pure.prev = stripComments(pure.text, pure.ext, <<>>, FALSE)
   /\ \A k \in 1..MaxPureFlags : pure.flags[k] = "none")
    => \A p \in 1..Len(pure.text) :
         BlockAndInlineAt(pure.text, p, getCommentMarkersForFile(pure.ext))
           => RestoredAt(pure.text, p, pure.out, getCommentMarkersForFile(pure.ext))

\* C30: the records extractComments returns stand in ascending order of
\* their original line: the first comment line of a block, the code line of
\* an inline comment.
C30_ExtractAscending ==
  pure.op \in {"inject", "roundTrip"}
    => \A i, j \in 1..Len(extractComments(pure.text, pure.ext)) :
         i < j => StoredLine(extractComments(pure.text, pure.ext)[i])
                    < StoredLine(extractComments(pure.text, pure.ext)[j])

\* C31: no saveVCM of the save watcher or of the liveSync debounce timer
\* begins while vcmSyncEnabled is false; in particular none begins while a
\* toggle is in flight.
C31_NoSyncWhileDisabled ==
  [][lastOp' = "saveBegin"
       => (vcmSyncEnabled /\ \A i \in 1..Len(inFlight) : inFlight[i].kind # "toggle")]_vars

\* C32: while a toggle command is between setting vcmSyncEnabled to false
\* and the end of its own document save, vcmSyncEnabled is false, also when
\* the 800 ms timer of an earlier toggle is still pending.
C32_DisabledWhileToggling ==
  (\E i \in 1..Len(inFlight) : inFlight[i].kind \in {"toggle", "togglePrivate"})
    => ~vcmSyncEnabled

\* C33: whenever a toggle command has set vcmSyncEnabled to false,
\* vcmSyncEnabled is eventually true again, whichever way the command ends.
C33_SyncEnabledAgain == ~vcmSyncEnabled ~> vcmSyncEnabled

\* the other mode
Flipped(mode) == IF mode = "commented" THEN "clean" ELSE "commented"

\* the ways a toggle returns behind its edit
Toggled == {"toggleToClean", "toggleToCommented", "toggleCreated"}

\* C34: a toggleCurrentFileComments run that applies its edit flips the mode
\* (the stored one, or the detected one when none is stored; the command run
\* without another step in between); no step of another handler changes a
\* mode that is set.
C34_ModeChangesOnlyByToggle ==
  [][/\ (lastOp' \in Toggled /\ ran'.pc = "end" /\ ran'.alone)
          => isCommentedMap' = Flipped(IF ran'.pre.mode = "unset"
                                       THEN detectInitialMode(ran'.pre.doc, Ext,
                                                              ran'.pre.files.shared)
                                       ELSE ran'.pre.mode)
     /\ (isCommentedMap # "unset" /\ isCommentedMap' # isCommentedMap)
          => ran'.kind = "toggle"]_vars

\* C35: a toggle that aborts because no persisted data could be produced
\* (the command run without another step in between) leaves the mode of the
\* document as it was before the command (the stored mode, or the detected
\* one when none was stored).
C35_AbortKeepsMode ==
  Ran({"toggleAbort"})
    => isCommentedMap = IF ran.pre.mode = "unset"
                        THEN detectInitialMode(ran.pre.doc, Ext, ran.pre.files.shared)
                        ELSE ran.pre.mode

\* the payload texts of a record, in order
Payload(c) == IF c.type = "inline" THEN <<c.text>> ELSE BlockTexts(c.block)

Unflagged(c) == [c EXCEPT !.alwaysShow = FALSE, !.isPrivate = FALSE]

\* the document is in Commented state and the shared file holds exactly the
\* records of its text (flags aside); there is no private record
InSyncCommented ==
  /\ isCommentedMap = "commented" /\ vcmSyncEnabled
  /\ files.shared.exists /\ loadPrivate(files) = <<>>
  /\ [k \in 1..Len(files.shared.comments) |-> Unflagged(files.shared.comments[k])]
       = extractComments(doc, Ext)

\* the state after toggle to Clean, save, toggle to Commented, from state st
CycleFrom(st, keepPrivate) ==
  ToggleToCommented(saveVCM(ToggleToClean(st, keepPrivate, liveSync)), keepPrivate).st

SamePayloads(s, t) ==
  /\ Len(s) = Len(t)
  /\ \A k \in 1..Len(s) : Payload(s[k]) = Payload(t[k])

\* C36: from a Commented state whose persisted set is in sync with the text,
\* toggle to Clean, save without an edit, toggle to Commented gives the text
\* back and leaves every record its payload, flagged alwaysShow or not.
C36_ToggleCycleRestores ==
  InSyncCommented
    => /\ CycleFrom(St, privateCommentsVisible = "visible").doc = doc
       /\ SamePayloads(CycleFrom(St, privateCommentsVisible = "visible").files.shared.comments,
                       files.shared.comments)

\* the position in the stripped text of line p of t, a line the Stripper
\* keeps
StrippedIndex(t, ext, p) == Len(stripComments(SubSeq(t, 1, p), ext, <<>>, FALSE))

\* C37: extractComments and stripComments agree on the inline comment
\* boundary of every code line: the anchor of the inline record extracted
\* from a line is the fingerprint of the line stripComments leaves, also
\* when a marker behind whitespace stands inside a string literal.
C37_SameInlineBoundary ==
  (/\ pure.op = "strip"
   /\ \A k \in 1..MaxPureFlags : pure.flags[k] = "none")
    => \A k \in 1..Len(extractComments(pure.text, pure.ext)) :
         extractComments(pure.text, pure.ext)[k].type = "inline"
           => extractComments(pure.text, pure.ext)[k].anchor
                = hashLine(pure.out[StrippedIndex(
                             pure.text, pure.ext,
                             extractComments(pure.text, pure.ext)[k].originalLine + 1)])

\* the record has a payload (text or block) or a clean-mode payload
HasContent(c) ==
  \/ c.text # <<>> \/ c.block # <<>>
  \/ c.text_cleanMode # <<>> \/ c.block_cleanMode # <<>>

\* C38: every persisted record, in the shared and in the private file, has a
\* payload or a non-null text_cleanMode: no run of saves, toggles and
\* commands leaves a record with neither.
C38_RecordsHaveContent ==
  /\ \A k \in 1..Len(files.shared.comments) : HasContent(files.shared.comments[k])
  /\ \A k \in 1..Len(files.private.comments) : HasContent(files.private.comments[k])

\* the comment c of a text is the comment of one of the records
CommentOf(c, records) == \E k \in 1..Len(records) : FullKey(records[k]) = FullKey(c)

\* C39: hiding the private comments with togglePrivateComments (the command
\* run without another step in between) removes only the comments of records
\* of the private file: every other comment of the document is still in it,
\* and both partition files are unchanged.
C39_HideRemovesOnlyPrivate ==
  Ran({"togglePrivateHide"})
    => /\ files = ran.pre.files
       /\ \A c \in SeqToSet(extractComments(ran.pre.doc, Ext)) :
            ~CommentOf(c, loadPrivate(ran.pre.files))
              => CommentOf(c, extractComments(doc, Ext))

\* the private records whose comments are not in the text
HiddenPrivate(fs, t) ==
  {p \in SeqToSet(fs.private.comments) : ~SomePresent(p, t)}

\* C40: a private record whose comments are not in the document is still in
\* the private file, unaltered, after a save (saveVCM in either mode) and
\* after a toggle of the comments in either direction (each run without
\* another step in between).
C40_HiddenPrivateKept ==
  Ran({"save", "toggleToClean", "toggleToCommented", "toggleCreated", "toggleAbort"})
    => \A p \in HiddenPrivate(ran.pre.files, ran.pre.doc) :
         /\ files.private.exists
         /\ p \in SeqToSet(files.private.comments)

====
